---------------------------- MODULE Spec2Model ----------------------------
(***************************************************************************)
(* A model of the arq crate's decoders (nlopes/arq): the typed stream      *)
(* reader, the cryptographic envelope (EncryptionDat, EncryptedObject),    *)
(* the pack store (Pack, PackIndex) and the logical decoders (Commit,      *)
(* Tree, Node).                                                            *)
(*                                                                         *)
(* A byte stream is a sequence over 0..255; a reader is a stream and a     *)
(* position (the number of bytes consumed).  A call ends in one of three   *)
(* ways, which the model keeps apart:                                      *)
(*     Ok    - the function returned Ok(value)                             *)
(*     Err   - the function returned Err(kind), kind one of error.rs       *)
(*     Panic - an assert!/assert_eq!/panic!/unimplemented!/slice index     *)
(*             unwound the call: nothing is returned to the caller         *)
(*                                                                         *)
(* The primitives of the external crates (sha1, hmac/sha2, ring's pbkdf2,  *)
(* aes/cbc, plist) are modelled by small stand-ins that keep the property  *)
(* the decoders rely on: the digests change whenever one byte of their     *)
(* input or their key changes, and the cipher is a keyed, chained, non-    *)
(* identity byte substitution with real PKCS#7 unpadding.                  *)
(***************************************************************************)
EXTENDS Integers, Sequences, FiniteSets, TLC

VARIABLES
    input,      \* the byte stream the caller hands to a constructor
    origin,     \* how `input` was built (a description of its content)
    pc,         \* "ready": no constructor called yet; "built": one was;
                \* "blob_keys", "returned": inside and after a stepped call
    result,     \* the last call: [op, arg, ret], ret its outcome
    objs,       \* the objects the caller holds after construction
    held,       \* "none" | "object" | "pack": where objs came from
    log,        \* the steps the last call performed on an object, in order
    validated_objs  \* the held objects a validate call has accepted so far

vars == <<input, origin, pc, result, objs, held, log, validated_objs>>

---------------------------------------------------------------------------
(* Outcomes                                                                *)

NoVal == [none |-> TRUE]

Ok(v, p) == [tag |-> "Ok", err |-> "", val |-> v, pos |-> p]

Err(e) == [tag |-> "Err", err |-> e, val |-> NoVal, pos |-> 0]

Panic(m) == [tag |-> "Panic", err |-> m, val |-> NoVal, pos |-> 0]

IsOk(r) == r.tag = "Ok"

---------------------------------------------------------------------------
(* Arithmetic on byte sequences                                            *)

Byte == 0..255

\* A value larger than the length of every stream of the model: the model's
\* stand-in for a decoded unsigned integer of 2^24 or more.
Saturated == 256 * 65536

\* The stand-in for a decoded u64 of 2^63 or more: as a usize it is above
\* isize::MAX, the largest size an allocation may have.
Overflowing == 2 * Saturated

Min(a, b) == IF a < b THEN a ELSE b

RECURSIVE SumRange(_, _, _)
SumRange(s, lo, hi) ==
    IF hi - lo < 3
    THEN (IF lo <= hi THEN s[lo] ELSE 0) + (IF lo + 1 <= hi THEN s[lo + 1] ELSE 0)
           + (IF lo + 2 <= hi THEN s[lo + 2] ELSE 0)
    ELSE SumRange(s, lo, lo + ((hi - lo) \div 4))
           + SumRange(s, lo + ((hi - lo) \div 4) + 1, lo + ((hi - lo) \div 2))
           + SumRange(s, lo + ((hi - lo) \div 2) + 1, hi - ((hi - lo) \div 4))
           + SumRange(s, hi - ((hi - lo) \div 4) + 1, hi)

Sum(s) == SumRange(s, 1, Len(s))

RECURSIVE WSumRange(_, _, _)
WSumRange(s, lo, hi) ==
    IF hi - lo < 3
    THEN ((IF lo <= hi THEN lo * s[lo] ELSE 0)
            + (IF lo + 1 <= hi THEN (lo + 1) * s[lo + 1] ELSE 0)
            + (IF lo + 2 <= hi THEN (lo + 2) * s[lo + 2] ELSE 0)) % 65536
    ELSE (WSumRange(s, lo, lo + ((hi - lo) \div 4))
            + WSumRange(s, lo + ((hi - lo) \div 4) + 1, lo + ((hi - lo) \div 2))
            + WSumRange(s, lo + ((hi - lo) \div 2) + 1, hi - ((hi - lo) \div 4))
            + WSumRange(s, hi - ((hi - lo) \div 4) + 1, hi)) % 65536

WSum(s) == WSumRange(s, 1, Len(s))

Rep(b, n) == [i \in 1..n |-> b]

\* The big-endian value of the last three bytes, or Saturated when a more
\* significant byte is set.
be_unsigned(bytes) ==
    LET n == Len(bytes)
    IN  IF \E i \in 1..(n - 3) : bytes[i] # 0
        THEN Saturated
        ELSE SumRange([i \in 1..n |->
                         IF i = n THEN bytes[i]
                         ELSE IF i = n - 1 THEN bytes[i] * 256
                         ELSE IF i = n - 2 THEN bytes[i] * 65536
                         ELSE 0], 1, n)

\* Four bytes as a two's-complement i32, exactly.
be_i32(b) ==
    (IF b[1] >= 128 THEN b[1] - 256 ELSE b[1]) * 16777216
      + b[2] * 65536 + b[3] * 256 + b[4]

\* The n-byte big-endian encoding of v (0 <= v < 2^24): builds test streams.
be_bytes(v, n) ==
    [i \in 1..n |->
        IF i = n THEN v % 256
        ELSE IF i = n - 1 THEN (v \div 256) % 256
        ELSE IF i = n - 2 THEN (v \div 65536) % 256
        ELSE 0]

---------------------------------------------------------------------------
(* Integers of 64 bits, exactly: [neg, mag], mag the magnitude in four     *)
(* limbs of 16 bits, the most significant first.                           *)

Limb == 65536

wide(neg, mag) == [neg |-> neg, mag |-> mag]

wide_zero == wide(FALSE, <<0, 0, 0, 0>>)

\* byteorder BigEndian::read_u64 / read_u32: the first byte of the slice is
\* the most significant one.
u64_from_be_bytes(b) ==
    wide(FALSE, <<b[1] * 256 + b[2], b[3] * 256 + b[4],
                  b[5] * 256 + b[6], b[7] * 256 + b[8]>>)

u32_from_be_bytes(b) ==
    wide(FALSE, <<0, 0, b[1] * 256 + b[2], b[3] * 256 + b[4]>>)

\* 2^64 - m for a magnitude m > 0: every limb complemented, then one added.
wide_complement(m) ==
    LET c4 == (Limb - 1 - m[4]) + 1
        c3 == (Limb - 1 - m[3]) + (c4 \div Limb)
        c2 == (Limb - 1 - m[2]) + (c3 \div Limb)
        c1 == (Limb - 1 - m[1]) + (c2 \div Limb)
    IN  <<c1 % Limb, c2 % Limb, c3 % Limb, c4 % Limb>>

\* byteorder BigEndian::read_i64: the u64 reinterpreted in two's complement.
\* An i64 read that takes the eight bytes for a magnitude.
i64_from_be_bytes_unsigned(b) == u64_from_be_bytes(b)

i64_from_be_bytes(b) ==
    IF b[1] >= 128 THEN wide(TRUE, wide_complement(u64_from_be_bytes(b).mag))
    ELSE u64_from_be_bytes(b)

\* `as usize` of a wide value, in the integers of the model.
wide_as_count(w) ==
    IF w.neg THEN 0 - Saturated
    ELSE IF w.mag[1] >= 32768 THEN Overflowing
    ELSE IF w.mag[1] # 0 \/ w.mag[2] # 0 \/ w.mag[3] >= 256 THEN Saturated
    ELSE w.mag[3] * Limb + w.mag[4]

\* Quotient and remainder of a magnitude by a divisor below 2^15.
wide_divmod(m, d) ==
    LET r1 == m[1] % d
        n2 == r1 * Limb + m[2]
        r2 == n2 % d
        n3 == r2 * Limb + m[3]
        r3 == n3 % d
        n4 == r3 * Limb + m[4]
    IN  [quot |-> <<m[1] \div d, n2 \div d, n3 \div d, n4 \div d>>,
         rem |-> n4 % d]

\* The decimal digits of a magnitude, the most significant first (ASCII).
RECURSIVE wide_decimal_digits(_)
wide_decimal_digits(m) ==
    LET qr == wide_divmod(m, 10)
    IN  IF qr.quot = <<0, 0, 0, 0>> THEN <<48 + qr.rem>>
        ELSE Append(wide_decimal_digits(qr.quot), 48 + qr.rem)

\* Display of an integer: its decimal digits after a minus sign if negative.
wide_to_string(w) ==
    (IF w.neg THEN <<45>> ELSE <<>>) \o wide_decimal_digits(w.mag)

---------------------------------------------------------------------------
(* type_utils.rs: the typed stream reader                                  *)

\* type_utils.rs:25-29.  `vec![0; count]` comes first: it panics for a count
\* above isize::MAX, and is taken to be granted for every other count.
read_bytes(buf, pos, count) ==
    IF count >= Overflowing THEN Panic("capacity overflow")
    ELSE IF pos + count <= Len(buf)
    THEN Ok(SubSeq(buf, pos + 1, pos + count), pos + count)
    ELSE Err("IoError")

read_arq_bool(buf, pos) ==
    LET flag == read_bytes(buf, pos, 1)
    IN  IF ~IsOk(flag) THEN flag ELSE Ok(flag.val[1] = 1, flag.pos)

\* u32, u64 and i64 values are wide integers; an i32 is an integer of the
\* model as it is.
read_arq_u32(buf, pos) ==
    LET b == read_bytes(buf, pos, 4)
    IN  IF ~IsOk(b) THEN b ELSE Ok(u32_from_be_bytes(b.val), b.pos)

read_arq_i32(buf, pos) ==
    LET b == read_bytes(buf, pos, 4)
    IN  IF ~IsOk(b) THEN b ELSE Ok(be_i32(b.val), b.pos)

read_arq_u64(buf, pos) ==
    LET b == read_bytes(buf, pos, 8)
    IN  IF ~IsOk(b) THEN b ELSE Ok(u64_from_be_bytes(b.val), b.pos)

read_arq_i64(buf, pos) ==
    LET b == read_bytes(buf, pos, 8)
    IN  IF ~IsOk(b) THEN b ELSE Ok(i64_from_be_bytes(b.val), b.pos)

\* `read()? as usize`, and a count that a loop or a comparison uses: the
\* wide value of a read as an integer of the model.
as_usize(r) == IF ~IsOk(r) THEN r ELSE Ok(wide_as_count(r.val), r.pos)

\* std::str::from_utf8: whether s is well-formed UTF-8.  Every byte that is
\* no continuation byte opens a scalar value: it is a lead byte, the bytes
\* it announces follow it and are continuation bytes (the second one in the
\* range its lead allows), and the byte after them opens the next one.
utf8_valid(s) ==
    LET n == Len(s)
        cont(j) == s[j] >= 128 /\ s[j] <= 191
        width(b) == IF b < 128 THEN 1
                    ELSE IF b >= 194 /\ b <= 223 THEN 2
                    ELSE IF b >= 224 /\ b <= 239 THEN 3
                    ELSE IF b >= 240 /\ b <= 244 THEN 4
                    ELSE 0
        second_lo(b) == IF b = 224 THEN 160 ELSE IF b = 240 THEN 144 ELSE 128
        second_hi(b) == IF b = 237 THEN 159 ELSE IF b = 244 THEN 143 ELSE 191
    IN  /\ n > 0 => ~cont(1)
        /\ \A i \in 1..n :
              cont(i) \/ ( /\ width(s[i]) > 0
                           /\ i + width(s[i]) - 1 <= n
                           /\ \A j \in (i + 1)..(i + width(s[i]) - 1) : cont(j)
                           /\ width(s[i]) > 1 =>
                                 ( s[i + 1] >= second_lo(s[i])
                                   /\ s[i + 1] <= second_hi(s[i]) )
                           /\ i + width(s[i]) <= n => ~cont(i + width(s[i])) )

\* A String is modelled by its UTF-8 bytes.
from_utf8(bytes) ==
    IF utf8_valid(bytes) THEN Ok(bytes, Len(bytes)) ELSE Err("ConversionError")

\* A read_arq_string that takes every presence byte but 0x00 for 0x01.
read_arq_string_nonzero_flag(buf, pos) ==
    LET present == read_bytes(buf, pos, 1)
        strlen == as_usize(read_arq_u64(buf, pos + 1))
        data_bytes == read_bytes(buf, pos + 9, strlen.val)
    IN  IF ~IsOk(present) THEN present
        ELSE IF present.val[1] = 0 THEN Ok(<<>>, pos + 1)
        ELSE IF ~IsOk(strlen) THEN strlen
        ELSE IF ~IsOk(data_bytes) THEN data_bytes
        ELSE IF ~utf8_valid(data_bytes.val) THEN from_utf8(data_bytes.val)
        ELSE Ok(data_bytes.val, data_bytes.pos)

read_arq_string(buf, pos) ==
    LET present == read_bytes(buf, pos, 1)
        strlen == as_usize(read_arq_u64(buf, pos + 1))
        data_bytes == read_bytes(buf, pos + 9, strlen.val)
    IN  IF ~IsOk(present) THEN present
        ELSE IF present.val[1] # 1 THEN Ok(<<>>, pos + 1)
        ELSE IF ~IsOk(strlen) THEN strlen
        ELSE IF ~IsOk(data_bytes) THEN data_bytes
        ELSE IF ~utf8_valid(data_bytes.val) THEN from_utf8(data_bytes.val)
        ELSE Ok(data_bytes.val, data_bytes.pos)

read_arq_data(buf, pos) ==
    LET strlen == as_usize(read_arq_u64(buf, pos))
    IN  IF ~IsOk(strlen) THEN strlen ELSE read_bytes(buf, pos + 8, strlen.val)

\* type_utils.rs ArqCompressionType::new
ArqCompressionType_new(buf, pos) ==
    LET c == read_arq_i32(buf, pos)
    IN  IF ~IsOk(c) THEN c
        ELSE IF c.val = 0 THEN Ok("None", c.pos)
        ELSE IF c.val = 1 THEN Ok("Gzip", c.pos)
        ELSE IF c.val = 2 THEN Ok("LZ4", c.pos)
        ELSE Panic("Compression type unknown")

read_arq_compression_type(buf, pos) == ArqCompressionType_new(buf, pos)

\* type_utils.rs ArqDate::new
ArqDate_new(buf, pos) ==
    LET present == read_bytes(buf, pos, 1)
        ms == read_arq_u64(buf, pos + 1)
    IN  IF ~IsOk(present) THEN present
        ELSE IF present.val[1] # 1
        THEN Ok([milliseconds_since_epoch |-> wide_zero], pos + 1)
        ELSE IF ~IsOk(ms) THEN ms
        ELSE Ok([milliseconds_since_epoch |-> ms.val], ms.pos)

read_arq_date(buf, pos) == ArqDate_new(buf, pos)

---------------------------------------------------------------------------
(* compression.rs, date.rs, blob.rs                                        *)

CompressionType_new(buf, pos) ==
    LET c == read_arq_i32(buf, pos)
    IN  IF ~IsOk(c) THEN c
        ELSE IF c.val = 0 THEN Ok("None", c.pos)
        ELSE IF c.val = 1 THEN Ok("Gzip", c.pos)
        ELSE IF c.val = 2 THEN Ok("LZ4", c.pos)
        ELSE Panic("Compression type unknown")

Date_new(buf, pos) ==
    LET present == read_bytes(buf, pos, 1)
        ms == read_arq_u64(buf, pos + 1)
    IN  IF ~IsOk(present) THEN present
        ELSE IF present.val[1] # 1
        THEN Ok([milliseconds_since_epoch |-> wide_zero], pos + 1)
        ELSE IF ~IsOk(ms) THEN ms
        ELSE Ok([milliseconds_since_epoch |-> ms.val], ms.pos)

\* chrono's NaiveDate::MAX is in this year.
MaxYear == 262143

\* chrono: the proleptic Gregorian date of the day `days` days after
\* 1970-01-01 (days >= 0).
civil_from_days(days) ==
    LET z == days + 719468
        era == z \div 146097
        doe == z - era * 146097
        yoe == (doe - doe \div 1460 + doe \div 36524 - doe \div 146096) \div 365
        doy == doe - (365 * yoe + yoe \div 4 - yoe \div 100)
        mp == (5 * doy + 2) \div 153
        month == IF mp < 10 THEN mp + 3 ELSE mp - 9
    IN  [year |-> yoe + era * 400 + (IF month <= 2 THEN 1 ELSE 0),
         month |-> month,
         day |-> doy - (153 * mp + 2) \div 5 + 1]

\* chrono NaiveDateTime::from_timestamp(secs, 0) for secs >= 0: it panics
\* when the day is beyond NaiveDate::MAX.  `secs` is a 64-bit magnitude.
NaiveDateTime_from_timestamp(secs) ==
    LET minutes == wide_divmod(secs, 60)
        hours == wide_divmod(minutes.quot, 60)
        days == wide_divmod(hours.quot, 24)
        date == civil_from_days(days.quot[3] * Limb + days.quot[4])
    IN  IF days.quot[1] # 0 \/ days.quot[2] # 0 \/ days.quot[3] >= 2048
        THEN Panic("invalid or out-of-range datetime")
        ELSE IF date.year > MaxYear
        THEN Panic("invalid or out-of-range datetime")
        ELSE Ok([year |-> date.year, month |-> date.month, day |-> date.day,
                 hour |-> days.rem, minute |-> hours.rem,
                 second |-> minutes.rem], 0)

RECURSIVE decimal_digits(_)
decimal_digits(n) ==
    IF n < 10 THEN <<48 + n>>
    ELSE decimal_digits(n \div 10) \o <<48 + (n % 10)>>

write_hundreds(n) == <<48 + (n \div 10), 48 + (n % 10)>>

\* chrono's Display of a DateTime<Utc> without a fraction of a second:
\* "YYYY-MM-DD HH:MM:SS UTC", a year above 9999 under a plus sign.
DateTime_Utc_fmt(t) ==
    (IF t.year <= 9999
     THEN write_hundreds(t.year \div 100) \o write_hundreds(t.year % 100)
     ELSE <<43>> \o decimal_digits(t.year))
      \o <<45>> \o write_hundreds(t.month) \o <<45>> \o write_hundreds(t.day)
      \o <<32>> \o write_hundreds(t.hour) \o <<58>> \o write_hundreds(t.minute)
      \o <<58>> \o write_hundreds(t.second) \o <<32, 85, 84, 67>>

\* date.rs:25-32, Display for Date: the text, or the panic of from_timestamp.
Date_fmt(date) ==
    LET naive_datetime ==
            NaiveDateTime_from_timestamp(
                wide_divmod(date.milliseconds_since_epoch.mag, 1000).quot)
    IN  IF ~IsOk(naive_datetime) THEN naive_datetime
        ELSE Ok(DateTime_Utc_fmt(naive_datetime.val), 0)

\* type_utils.rs:118-126, Display for ArqDate.
ArqDate_fmt(date) ==
    LET naive_datetime ==
            NaiveDateTime_from_timestamp(
                wide_divmod(date.milliseconds_since_epoch.mag, 1000).quot)
    IN  IF ~IsOk(naive_datetime) THEN naive_datetime
        ELSE Ok(DateTime_Utc_fmt(naive_datetime.val), 0)

\* One read of a decoder, by the name of what is read: a read of the
\* ArqRead trait, a decoder built on it, or a counted loop of a decoder.
RECURSIVE read_field(_, _, _)

\* The value of one read, as a run of one value.
one_field(h) == IF ~IsOk(h) THEN h ELSE Ok(<<h.val>>, h.pos)

\* The reads lo..hi of a run of reads, each followed by `?`: the run is read
\* in up to six consecutive parts, each from where the one before it ended,
\* and the first failure is the result.
RECURSIVE read_field_range(_, _, _, _, _)
read_field_range(buf, pos, tys, lo, hi) ==
    IF lo > hi THEN Ok(<<>>, pos)
    ELSE IF lo = hi THEN one_field(read_field(buf, pos, tys[lo]))
    ELSE LET w == (hi - lo + 6) \div 6
             a == read_field_range(buf, pos, tys, lo, lo + w - 1)
             b == read_field_range(buf, a.pos, tys, lo + w, Min(lo + 2 * w - 1, hi))
             c == read_field_range(buf, b.pos, tys, lo + 2 * w, Min(lo + 3 * w - 1, hi))
             d == read_field_range(buf, c.pos, tys, lo + 3 * w, Min(lo + 4 * w - 1, hi))
             e == read_field_range(buf, d.pos, tys, lo + 4 * w, Min(lo + 5 * w - 1, hi))
             f == read_field_range(buf, e.pos, tys, lo + 5 * w, hi)
         IN  CASE ~IsOk(a) -> a
               [] ~IsOk(b) -> b
               [] ~IsOk(c) -> c
               [] ~IsOk(d) -> d
               [] ~IsOk(e) -> e
               [] ~IsOk(f) -> f
               [] OTHER -> Ok(a.val \o b.val \o c.val \o d.val \o e.val \o f.val,
                              f.pos)

\* A run of reads, each followed by `?`: the values in order, or the first
\* failure.
read_fields(buf, pos, tys) == read_field_range(buf, pos, tys, 1, Len(tys))

\* blob.rs BlobKey::new.  Option<BlobKey> is a record with the field `some`.
BlobKeyFields == <<"string", "bool", "u32", "string", "u64", "date">>

\* blob.rs:29-40: None for an empty sha1, the BlobKey of the values read
\* otherwise.
BlobKey_of(r) ==
    IF ~IsOk(r) THEN r
    ELSE IF r.val[1] = <<>> THEN Ok([some |-> FALSE], r.pos)
    ELSE Ok([some |-> TRUE,
             sha1 |-> r.val[1],
             is_encryption_key_stretched |-> r.val[2],
             storage_type |-> r.val[3],
             archive_id |-> r.val[4],
             archive_size |-> r.val[5],
             archive_upload_date |-> r.val[6]],
            r.pos)

\* A BlobKey::new that leaves the reader where it was when the key is absent.
BlobKey_new_absent_unread(buf, pos) ==
    LET k == BlobKey_of(read_fields(buf, pos, BlobKeyFields))
    IN  IF IsOk(k) /\ ~k.val.some THEN Ok(k.val, pos) ELSE k

\* A BlobKey::new that answers None as soon as it has read an empty sha1.
BlobKey_new_early_none(buf, pos) ==
    LET sha1 == read_arq_string(buf, pos)
    IN  IF IsOk(sha1) /\ sha1.val = <<>> THEN Ok([some |-> FALSE], sha1.pos)
        ELSE BlobKey_of(read_fields(buf, pos, BlobKeyFields))

BlobKey_new(buf, pos) == BlobKey_of(read_fields(buf, pos, BlobKeyFields))

---------------------------------------------------------------------------
(* lz4.rs and compression.rs                                               *)

\* One length of an LZ4 sequence: the token's nibble, extended by the bytes
\* that follow while they are 255.  [ok, len, ip].
RECURSIVE lz4_length(_, _, _)
lz4_length(src, ip, acc) ==
    IF ip > Len(src) THEN [ok |-> FALSE, len |-> acc, ip |-> ip]
    ELSE IF src[ip] = 255 THEN lz4_length(src, ip + 1, acc + 255)
    ELSE [ok |-> TRUE, len |-> acc + src[ip], ip |-> ip + 1]

\* Copy of a match of `n` bytes from `offset` bytes back, byte by byte: the
\* copy may overlap what it writes, which repeats the last `offset` bytes.
lz4_copy_match(out, offset, n) ==
    LET m == Len(out)
    IN  [i \in 1..(m + n) |->
            IF i <= m THEN out[i] ELSE out[m - offset + 1 + ((i - m - 1) % offset)]]

\* The LZ4 block format, decoded into at most `cap` bytes: [ok, out], `out`
\* being what was written when decoding ended or failed.
RECURSIVE lz4_block(_, _, _, _)
lz4_block(src, ip, out, cap) ==
    IF ip > Len(src) THEN [ok |-> FALSE, out |-> out]
    ELSE
    LET token == src[ip]
        lit0 == token \div 16
        lit == IF lit0 = 15 THEN lz4_length(src, ip + 1, 15)
               ELSE [ok |-> TRUE, len |-> lit0, ip |-> ip + 1]
        lit_end == lit.ip + lit.len - 1
        out1 == out \o SubSeq(src, lit.ip, lit_end)
        mp == lit_end + 1
        offset == src[mp] + 256 * src[mp + 1]
        ml0 == token % 16
        ml == IF ml0 = 15 THEN lz4_length(src, mp + 2, 15)
              ELSE [ok |-> TRUE, len |-> ml0, ip |-> mp + 2]
        mlen == ml.len + 4
    IN  IF ~lit.ok \/ lit_end > Len(src) \/ Len(out) + lit.len > cap
        THEN [ok |-> FALSE, out |-> out]
        ELSE IF lit_end = Len(src) THEN [ok |-> TRUE, out |-> out1]
        ELSE IF mp + 1 > Len(src) THEN [ok |-> FALSE, out |-> out1]
        ELSE IF offset = 0 \/ offset > Len(out1) THEN [ok |-> FALSE, out |-> out1]
        ELSE IF ~ml.ok \/ Len(out1) + mlen > cap THEN [ok |-> FALSE, out |-> out1]
        ELSE lz4_block(src, ml.ip, lz4_copy_match(out1, offset, mlen), cap)

\* lz4.rs lz4_decompress: the buffer of the declared length, zero-filled, with
\* whatever LZ4_decompress_safe wrote into it; its return value is dropped.
lz4_decompress(src) ==
    LET original_len == read_arq_i32(src, 0)
        d == lz4_block(SubSeq(src, 5, Len(src)), 1, <<>>, original_len.val)
    IN  IF ~IsOk(original_len) THEN original_len
        ELSE IF original_len.val < 0 THEN Panic("capacity overflow")
        ELSE Ok([i \in 1..original_len.val |->
                    IF i <= Len(d.out) THEN d.out[i] ELSE 0], 0)

\* A decompress that hands Gzip data back as it came.
CompressionType_decompress_gzip_stored(compressed, compression_type) ==
    CASE compression_type = "LZ4" -> lz4_decompress(compressed)
      [] compression_type = "Gzip" -> Ok(compressed, 0)
      [] compression_type = "None" -> Ok(compressed, 0)

CompressionType_decompress(compressed, compression_type) ==
    CASE compression_type = "LZ4" -> lz4_decompress(compressed)
      [] compression_type = "Gzip" -> Panic("not implemented")
      [] compression_type = "None" -> Ok(compressed, 0)

---------------------------------------------------------------------------
(* tree.rs: Node, Tree, Commit                                             *)

\* std::collections::HashMap::insert: a map is a function on its key set, and
\* inserting a key already present replaces its value.
HashMap_insert(m, k, v) ==
    [x \in (DOMAIN m) \cup {k} |-> IF x = k THEN v ELSE m[x]]

HashMap_new == [x \in {} |-> NoVal]

\* str::parse::<u32> of the bytes of a str: an optional '+', then decimal
\* digits only.
parse_u32(s) ==
    LET digits == IF Len(s) > 0 /\ s[1] = 43 THEN Tail(s) ELSE s
        n == Len(digits)
    IN  IF n = 0 \/ n > 6 THEN Err("ParseError")
        ELSE IF \E i \in 1..n : digits[i] < 48 \/ digits[i] > 57
        THEN Err("ParseError")
        ELSE Ok(SumRange([i \in 1..n |->
                    (digits[i] - 48) * (CASE n - i = 0 -> 1 [] n - i = 1 -> 10
                                          [] n - i = 2 -> 100 [] n - i = 3 -> 1000
                                          [] n - i = 4 -> 10000 [] n - i = 5 -> 100000)],
                    1, n), 0)

\* A blob-key loop that counts every BlobKey it reads, absent ones too.
RECURSIVE read_data_blob_keys_counting_absent(_, _, _, _)
read_data_blob_keys_counting_absent(buf, pos, data_blob_keys_count, data_blob_keys) ==
    IF data_blob_keys_count > 0
    THEN LET k == BlobKey_new(buf, pos)
         IN  IF ~IsOk(k) THEN k
             ELSE read_data_blob_keys_counting_absent(
                      buf, k.pos, data_blob_keys_count - 1,
                      IF k.val.some THEN Append(data_blob_keys, k.val)
                      ELSE data_blob_keys)
    ELSE Ok(data_blob_keys, pos)

\* tree.rs:148-153: the loop counts only the BlobKeys that are present.
RECURSIVE read_data_blob_keys(_, _, _, _)
read_data_blob_keys(buf, pos, data_blob_keys_count, data_blob_keys) ==
    IF data_blob_keys_count > 0
    THEN LET k == BlobKey_new(buf, pos)
         IN  IF ~IsOk(k) THEN k
             ELSE IF k.val.some
             THEN read_data_blob_keys(buf, k.pos, data_blob_keys_count - 1,
                                      Append(data_blob_keys, k.val))
             ELSE read_data_blob_keys(buf, k.pos, data_blob_keys_count,
                                      data_blob_keys)
    ELSE Ok(data_blob_keys, pos)

\* tree.rs:144-153: the i32 count and the loop it drives.
Node_data_blob_keys(buf, pos) ==
    LET data_blob_keys_count == read_arq_i32(buf, pos)
    IN  IF ~IsOk(data_blob_keys_count) THEN data_blob_keys_count
        ELSE read_data_blob_keys(buf, pos + 4, data_blob_keys_count.val, <<>>)

\* tree.rs:139-176, the reads of Node::new in order.
NodeFields ==
    <<"bool", "bool", "compression_type", "compression_type",
      "compression_type", "data_blob_keys",
      "u64", "blob_key", "u64", "blob_key", "i32", "i32", "i32", "i64", "i64",
      "i64", "i32", "i32", "string", "string", "bool", "i32", "i32", "u32",
      "i32", "i64", "i64", "i64", "i64", "i64", "u32">>

\* tree.rs:178-212: the Node of the values read.
Node_of(r) ==
    IF ~IsOk(r) THEN r
    ELSE Ok([is_tree |-> r.val[1],
             tree_contains_missing_items |-> r.val[2],
             data_compression_type |-> r.val[3],
             xattrs_compression_type |-> r.val[4],
             acl_compression_type |-> r.val[5],
             data_blob_keys |-> r.val[6],
             data_size |-> r.val[7],
             xattrs_blob_key |-> r.val[8],
             xattrs_size |-> r.val[9],
             acl_blob_key |-> r.val[10],
             uid |-> r.val[11], gid |-> r.val[12], mode |-> r.val[13],
             mtime_sec |-> r.val[14], mtime_nsec |-> r.val[15],
             flags |-> r.val[16], finder_flags |-> r.val[17],
             extended_finder_flags |-> r.val[18],
             finder_file_type |-> r.val[19],
             finder_file_creator |-> r.val[20],
             is_file_extension_hidden |-> r.val[21],
             st_dev |-> r.val[22], st_ino |-> r.val[23],
             st_nlink |-> r.val[24], st_rdev |-> r.val[25],
             ctime_sec |-> r.val[26], ctime_nsec |-> r.val[27],
             create_time_sec |-> r.val[28], create_time_nsec |-> r.val[29],
             st_blocks |-> r.val[30], st_blksize |-> r.val[31]],
            r.pos)

Node_new(buf, pos) == Node_of(read_fields(buf, pos, NodeFields))

\* tree.rs:332-336
RECURSIVE read_missing_nodes(_, _, _, _)
read_missing_nodes(buf, pos, missing_node_count, missing_nodes) ==
    IF missing_node_count > 0
    THEN LET node_name == read_arq_string(buf, pos)
         IN  IF ~IsOk(node_name) THEN node_name
             ELSE read_missing_nodes(buf, node_name.pos, missing_node_count - 1,
                                     Append(missing_nodes, node_name.val))
    ELSE Ok(missing_nodes, pos)

\* tree.rs:329-336: the u32 count and the loop it drives.
Tree_missing_nodes(buf, pos) ==
    LET missing_node_count == as_usize(read_arq_u32(buf, pos))
    IN  IF ~IsOk(missing_node_count) THEN missing_node_count
        ELSE read_missing_nodes(buf, pos + 4, missing_node_count.val, <<>>)

\* The nodes loop without its assertion on the name.
RECURSIVE read_nodes_unasserted(_, _, _, _)
read_nodes_unasserted(buf, pos, node_count, nodes) ==
    IF node_count > 0
    THEN LET node_name == read_arq_string(buf, pos)
             node == Node_new(buf, node_name.pos)
         IN  IF ~IsOk(node_name) THEN node_name
             ELSE IF ~IsOk(node) THEN node
             ELSE read_nodes_unasserted(buf, node.pos, node_count - 1,
                             HashMap_insert(nodes, node_name.val, node.val))
    ELSE Ok(nodes, pos)

\* tree.rs:340-347
RECURSIVE read_nodes(_, _, _, _)
read_nodes(buf, pos, node_count, nodes) ==
    IF node_count > 0
    THEN LET node_name == read_arq_string(buf, pos)
             node == Node_new(buf, node_name.pos)
         IN  IF ~IsOk(node_name) THEN node_name
             ELSE IF node_name.val = <<>>
             THEN Panic("assertion failed: !node_name.is_empty()")
             ELSE IF ~IsOk(node) THEN node
             ELSE read_nodes(buf, node.pos, node_count - 1,
                             HashMap_insert(nodes, node_name.val, node.val))
    ELSE Ok(nodes, pos)

\* tree.rs:338-347: the u32 count and the loop it drives.
Tree_nodes(buf, pos) ==
    LET node_count == as_usize(read_arq_u32(buf, pos))
    IN  IF ~IsOk(node_count) THEN node_count
        ELSE read_nodes(buf, pos + 4, node_count.val, HashMap_new)

TreeV == <<84, 114, 101, 101, 86>>

\* tree.rs:302-304: the header, its assertion, and the version it carries.
Tree_header(buf, pos) ==
    LET tree_header == read_bytes(buf, pos, 8)
        version == parse_u32(SubSeq(tree_header.val, 6, 8))
    IN  IF ~IsOk(tree_header) THEN tree_header
        ELSE IF SubSeq(tree_header.val, 1, 5) # TreeV
        THEN Panic("assertion failed: tree_header[..5] == TreeV")
        ELSE IF ~utf8_valid(SubSeq(tree_header.val, 6, 8))
        THEN from_utf8(SubSeq(tree_header.val, 6, 8))
        ELSE IF ~IsOk(version) THEN version
        ELSE Ok(version.val, pos + 8)

\* tree.rs:302-347, the reads of Tree::new in order.
TreeFields ==
    <<"tree_header",
      "compression_type", "compression_type", "blob_key", "u64", "blob_key",
      "i32", "i32", "i32", "i64", "i64", "i64", "i32", "i32", "i32", "i32",
      "u32", "i32", "i64", "i64", "i64", "u32", "i64", "i64",
      "missing_nodes", "nodes">>

\* tree.rs:349-376: the Tree of the values read.
Tree_of(r) ==
    IF ~IsOk(r) THEN r
    ELSE Ok([version |-> r.val[1],
             xattrs_compression_type |-> r.val[2],
             acl_compression_type |-> r.val[3],
             xattrs_blob_key |-> r.val[4],
             xattrs_size |-> r.val[5],
             acl_blob_key |-> r.val[6],
             uid |-> r.val[7], gid |-> r.val[8], mode |-> r.val[9],
             mtime_sec |-> r.val[10], mtime_nsec |-> r.val[11],
             flags |-> r.val[12], finder_flags |-> r.val[13],
             extended_finder_flags |-> r.val[14],
             st_dev |-> r.val[15], st_ino |-> r.val[16],
             st_nlink |-> r.val[17], st_rdev |-> r.val[18],
             ctime_sec |-> r.val[19], ctime_nsec |-> r.val[20],
             st_blocks |-> r.val[21], st_blksize |-> r.val[22],
             create_time_sec |-> r.val[23], create_time_nsec |-> r.val[24],
             missing_nodes |-> r.val[25],
             nodes |-> r.val[26]],
            r.pos)

Tree_new(compressed_content, compression_type) ==
    LET content == CompressionType_decompress(compressed_content, compression_type)
    IN  IF ~IsOk(content) THEN content
        ELSE Tree_of(read_fields(content.val, 0, TreeFields))

\* tree.rs:459-465
RECURSIVE read_parent_commits(_, _, _, _)
read_parent_commits(buf, pos, num_parent_commits, parent_commits) ==
    IF num_parent_commits > 0
    THEN LET sha1 == read_arq_string(buf, pos)
             encryption_key_stretched == read_arq_bool(buf, sha1.pos)
         IN  IF ~IsOk(sha1) THEN sha1
             ELSE IF ~IsOk(encryption_key_stretched) THEN encryption_key_stretched
             ELSE read_parent_commits(buf, encryption_key_stretched.pos,
                     num_parent_commits - 1,
                     HashMap_insert(parent_commits, sha1.val,
                                    encryption_key_stretched.val))
    ELSE Ok(parent_commits, pos)

\* tree.rs:455-465: the u64 count, the assertion on it, and the loop.
Commit_parent_commits(buf, pos) ==
    LET num_parent_commits == as_usize(read_arq_u64(buf, pos))
    IN  IF ~IsOk(num_parent_commits) THEN num_parent_commits
        ELSE IF ~(num_parent_commits.val = 0 \/ num_parent_commits.val = 1)
        THEN Panic("assertion failed: num_parent_commits == 0 || num_parent_commits == 1")
        ELSE read_parent_commits(buf, pos + 8, num_parent_commits.val, HashMap_new)

\* tree.rs:475-481
RECURSIVE read_failed_files(_, _, _, _)
read_failed_files(buf, pos, num_failed_files, failed_files) ==
    IF num_failed_files > 0
    THEN LET relative_path == read_arq_string(buf, pos)
             error_message == read_arq_string(buf, relative_path.pos)
         IN  IF ~IsOk(relative_path) THEN relative_path
             ELSE IF ~IsOk(error_message) THEN error_message
             ELSE read_failed_files(buf, error_message.pos, num_failed_files - 1,
                     Append(failed_files, <<relative_path.val, error_message.val>>))
    ELSE Ok(failed_files, pos)

\* tree.rs:473-481: the u64 count and the loop it drives.
Commit_failed_files(buf, pos) ==
    LET num_failed_files == as_usize(read_arq_u64(buf, pos))
    IN  IF ~IsOk(num_failed_files) THEN num_failed_files
        ELSE read_failed_files(buf, pos + 8, num_failed_files.val, <<>>)

CommitV == <<67, 111, 109, 109, 105, 116, 86>>

\* tree.rs:443-445: `content[..10]` panics for a slice shorter than 10.
Commit_is_commit(content) ==
    IF Len(content) < 10
    THEN Panic("range end index 10 out of range for slice")
    ELSE Ok(SubSeq(content, 1, 10)
              = <<67, 111, 109, 109, 105, 116, 86, 48, 49, 50>>, 0)

\* tree.rs:448-450: the header, its assertion, and the version it carries.
Commit_header(buf, pos) ==
    LET header == read_bytes(buf, pos, 10)
        version == parse_u32(SubSeq(header.val, 8, 10))
    IN  IF ~IsOk(header) THEN header
        ELSE IF SubSeq(header.val, 1, 7) # CommitV
        THEN Panic("assertion failed: header[..7] == CommitV")
        ELSE IF ~utf8_valid(SubSeq(header.val, 8, 10))
        THEN from_utf8(SubSeq(header.val, 8, 10))
        ELSE IF ~IsOk(version) THEN version
        ELSE Ok(version.val, pos + 10)

\* tree.rs:448-486, the reads of Commit::new in order.
CommitFields ==
    <<"commit_header", "string", "string", "parent_commits",
      "string", "bool", "compression_type", "string", "date",
      "failed_files", "bool", "bool", "data", "string">>

\* tree.rs:488-503: the Commit of the values read.
Commit_of(r) ==
    IF ~IsOk(r) THEN r
    ELSE Ok([version |-> r.val[1],
             author |-> r.val[2],
             comment |-> r.val[3],
             parent_commits |-> r.val[4],
             tree_sha1 |-> r.val[5],
             tree_encryption_key_stretched |-> r.val[6],
             tree_compression_type |-> r.val[7],
             folder_path |-> r.val[8],
             creation_date |-> r.val[9],
             failed_files |-> r.val[10],
             has_missing_nodes |-> r.val[11],
             is_complete |-> r.val[12],
             config_plist_xml |-> r.val[13],
             arq_version |-> r.val[14]],
            r.pos)

Commit_new(buf, pos) == Commit_of(read_fields(buf, pos, CommitFields))

\* packset.rs:326-337: a flag read with read_arq_bool and, when it is set,
\* a string read with read_arq_string, which reads a presence byte of its
\* own.
PackObject_flagged_string(buf, pos) ==
    LET present == read_arq_bool(buf, pos)
    IN  IF ~IsOk(present) THEN present
        ELSE IF present.val THEN read_arq_string(buf, pos + 1)
        ELSE Ok(<<>>, pos + 1)

read_field(buf, pos, ty) ==
    CASE ty = "bool" -> read_arq_bool(buf, pos)
      [] ty = "u32" -> read_arq_u32(buf, pos)
      [] ty = "i32" -> read_arq_i32(buf, pos)
      [] ty = "u64" -> read_arq_u64(buf, pos)
      [] ty = "i64" -> read_arq_i64(buf, pos)
      [] ty = "string" -> read_arq_string(buf, pos)
      [] ty = "data" -> read_arq_data(buf, pos)
      [] ty = "date" -> read_arq_date(buf, pos)
      [] ty = "compression_type" -> read_arq_compression_type(buf, pos)
      [] ty = "blob_key" -> BlobKey_new(buf, pos)
      [] ty = "data_blob_keys" -> Node_data_blob_keys(buf, pos)
      [] ty = "tree_header" -> Tree_header(buf, pos)
      [] ty = "missing_nodes" -> Tree_missing_nodes(buf, pos)
      [] ty = "nodes" -> Tree_nodes(buf, pos)
      [] ty = "commit_header" -> Commit_header(buf, pos)
      [] ty = "parent_commits" -> Commit_parent_commits(buf, pos)
      [] ty = "failed_files" -> Commit_failed_files(buf, pos)
      [] ty = "flagged_string" -> PackObject_flagged_string(buf, pos)

---------------------------------------------------------------------------
(* object_encryption.rs: digests, ciphers, EncryptionDat, EncryptedObject   *)

\* The stand-in digest of `n` bytes over a key and a message.  Its first
\* byte changes with any change of a single byte of the message.
digest(n, key, message) ==
    LET h1 == (Sum(key) + Sum(message)) % 256
        h2 == (WSum(key) + WSum(message) + Len(message)) % 256
    IN  [j \in 1..n |->
            IF j = 1 THEN h1
            ELSE IF j = 2 THEN h2
            ELSE (h1 + (j * h2) + (j * j)) % 256]

Sha1Len == 20

Sha256Len == 32

\* Hmac::new_from_slice takes a key of any length: this never fails.
calculate_hmacsha256(secret, message) ==
    Ok(digest(Sha256Len, <<1>> \o secret, message), 0)

calculate_sha1sum(message) == digest(Sha1Len, <<>>, message)

\* ring::pbkdf2::derive into a 64-byte buffer (stand-in).
derive_encryption_key(password, salt) ==
    LET a == (3 * Sum(password) + WSum(password)) % 256
        b == (Sum(salt) + WSum(salt)) % 256
    IN  [j \in 1..64 |-> (a + b + (7 * j) + ((a * j) % 13)) % 256]

AesBlock == 16

AesKeyLen == 32

\* CBC decryption of one buffer: byte i is the keyed inverse substitution of
\* the ciphertext byte, combined with the previous ciphertext block (the IV
\* for the first block).
cbc_decrypt_blocks(key, iv, data) ==
    [i \in 1..Len(data) |->
        (data[i] + 512 - key[((i - 1) % AesKeyLen) + 1]
           - (IF i <= AesBlock THEN iv[i] ELSE data[i - AesBlock])) % 256]

\* block_padding::Pkcs7 unpad of whole blocks.
pkcs7_unpad(buf) ==
    LET n == Len(buf)
        p == buf[n]
    IN  IF n = 0 \/ n % AesBlock # 0 THEN Err("CipherError")
        ELSE IF p = 0 \/ p > AesBlock THEN Err("CipherError")
        ELSE IF \E i \in (n - p + 1)..n : buf[i] # p THEN Err("CipherError")
        ELSE Ok(SubSeq(buf, 1, n - p), 0)

\* Aes256CbcDec::new_from_slices(key, iv)?.decrypt_padded_mut::<Pkcs7>(data)?
aes256_cbc_decrypt(key, iv, data) ==
    IF Len(key) # AesKeyLen \/ Len(iv) # AesBlock THEN Err("CryptoError")
    ELSE IF Len(data) % AesBlock # 0 THEN Err("CipherError")
    ELSE pkcs7_unpad(cbc_decrypt_blocks(key, iv, data))

parse_master_keys(master_keys) ==
    <<SubSeq(master_keys, 1, 32), SubSeq(master_keys, 33, 64),
      SubSeq(master_keys, 65, 96)>>

ENCRYPTIONV2 == <<69, 78, 67, 82, 89, 80, 84, 73, 79, 78, 86, 50>>

\* The HMAC comparison of EncryptionDat::new (object_encryption.rs:161-165).
\* EncryptionDat::new with the comparison of line 163 left out: every
\* password goes on to the AES decryption.
EncryptionDat_hmac_unchecked(encryption_key, iv, encrypted_master_keys, hmacsha256) ==
    TRUE

\* object_encryption.rs:161-163: the HMAC of (iv, encrypted_master_keys)
\* under bytes 32..64 of the derived key, compared with the file's.
EncryptionDat_hmac_matches(encryption_key, iv, encrypted_master_keys, hmacsha256) ==
    calculate_hmacsha256(SubSeq(encryption_key, 33, 64),
                         iv \o encrypted_master_keys).val = hmacsha256

\* EncryptionDat::new.  decrypt_padded_mut decrypts the buffer in place, and
\* parse_master_keys slices the buffer, padding included.
EncryptionDat_new(buf, password) ==
    LET header == read_bytes(buf, 0, 12)
        salt == read_bytes(buf, 12, 8)
        hmacsha256 == read_bytes(buf, 20, 32)
        iv == read_bytes(buf, 52, 16)
        encrypted_master_keys == read_bytes(buf, 68, 112)
        encryption_key == derive_encryption_key(password, salt.val)
        plain == aes256_cbc_decrypt(SubSeq(encryption_key, 1, 32), iv.val,
                                    encrypted_master_keys.val)
    IN  IF ~IsOk(header) THEN header
        ELSE IF header.val # ENCRYPTIONV2
        THEN Panic("assertion failed: header == ENCRYPTIONV2")
        ELSE IF ~IsOk(salt) THEN salt
        ELSE IF ~IsOk(hmacsha256) THEN hmacsha256
        ELSE IF ~IsOk(iv) THEN iv
        ELSE IF ~IsOk(encrypted_master_keys) THEN encrypted_master_keys
        ELSE IF ~EncryptionDat_hmac_matches(encryption_key, iv.val,
                    encrypted_master_keys.val, hmacsha256.val)
        THEN Err("WrongPassword")
        ELSE IF ~IsOk(plain) THEN plain
        ELSE Ok([salt |-> salt.val,
                 hmac_sha256 |-> hmacsha256.val,
                 iv |-> iv.val,
                 encryption_key |-> encryption_key,
                 master_keys |->
                     parse_master_keys(
                         cbc_decrypt_blocks(SubSeq(encryption_key, 1, 32), iv.val,
                                            encrypted_master_keys.val))],
                180)

ARQO == <<65, 82, 81, 79>>

\* EncryptedObject::new: read_to_end takes every byte that is left.
EncryptedObject_new(buf, pos) ==
    LET header == read_bytes(buf, pos, 4)
        hmac_sha256 == read_bytes(buf, pos + 4, 32)
        master_iv == read_bytes(buf, pos + 36, 16)
        encrypted_data_iv_session == read_bytes(buf, pos + 52, 64)
    IN  IF ~IsOk(header) THEN header
        ELSE IF header.val # ARQO THEN Panic("assertion failed: header == ARQO")
        ELSE IF ~IsOk(hmac_sha256) THEN hmac_sha256
        ELSE IF ~IsOk(master_iv) THEN master_iv
        ELSE IF ~IsOk(encrypted_data_iv_session) THEN encrypted_data_iv_session
        ELSE Ok([hmac_sha256 |-> hmac_sha256.val,
                 master_iv |-> master_iv.val,
                 encrypted_data_iv_session |-> encrypted_data_iv_session.val,
                 ciphertext |-> SubSeq(buf, pos + 117, Len(buf))],
                Len(buf))

\* What EncryptedObject::validate computes and compares.
EncryptedObject_hmac_matches(self, master_key) ==
    calculate_hmacsha256(master_key,
        self.master_iv \o self.encrypted_data_iv_session \o self.ciphertext).val
      = self.hmac_sha256

EncryptedObject_validate(self, master_key) ==
    IF ~EncryptedObject_hmac_matches(self, master_key)
    THEN Panic("assertion failed: calculated_hmacsha256 == self.hmac_sha256")
    ELSE Ok(NoVal, 0)

EncryptedObject_decrypt(self, master_key) ==
    LET data_iv_session ==
            aes256_cbc_decrypt(master_key, self.master_iv,
                               self.encrypted_data_iv_session)
    IN  IF ~IsOk(data_iv_session) THEN data_iv_session
        ELSE IF Len(data_iv_session.val) < 48 THEN Panic("slice index out of range")
        ELSE aes256_cbc_decrypt(SubSeq(data_iv_session.val, 17, 48),
                                SubSeq(data_iv_session.val, 1, 16),
                                self.ciphertext)

---------------------------------------------------------------------------
(* utils.rs, packset.rs, folder.rs                                         *)

hex_digit(d) == IF d < 10 THEN 48 + d ELSE 87 + d

\* utils.rs convert_to_hex_string: two lowercase hex digits per byte.
convert_to_hex_string(array) ==
    [i \in 1..(2 * Len(array)) |->
        IF i % 2 = 1 THEN hex_digit(array[(i + 1) \div 2] \div 16)
        ELSE hex_digit(array[i \div 2] % 16)]

PackIndexObject_new(buf, pos) ==
    LET offset == as_usize(read_arq_u64(buf, pos))
        data_len == as_usize(read_arq_u64(buf, pos + 8))
        sha1 == read_bytes(buf, pos + 16, 20)
        padding == read_bytes(buf, pos + 36, 4)
    IN  IF ~IsOk(offset) THEN offset
        ELSE IF ~IsOk(data_len) THEN data_len
        ELSE IF ~IsOk(sha1) THEN sha1
        ELSE IF ~IsOk(padding) THEN padding
        ELSE Ok([offset |-> offset.val,
                 data_len |-> data_len.val,
                 sha1 |-> convert_to_hex_string(sha1.val)],
                pos + 40)

\* packset.rs:229-232
RECURSIVE read_index_objects(_, _, _, _)
read_index_objects(buf, pos, object_count, objects) ==
    IF object_count > 0
    THEN LET o == PackIndexObject_new(buf, pos)
         IN  IF ~IsOk(o) THEN o
             ELSE read_index_objects(buf, o.pos, object_count - 1,
                                     Append(objects, o.val))
    ELSE Ok(objects, pos)

FanoutEntries == 256

\* packset.rs:218-221: FanoutEntries reads of 4 bytes each.
read_fanout(buf, pos) ==
    IF pos + 4 * FanoutEntries <= Len(buf)
    THEN Ok([i \in 1..FanoutEntries |->
                SubSeq(buf, pos + 4 * (i - 1) + 1, pos + 4 * i)],
            pos + 4 * FanoutEntries)
    ELSE Err("IoError")

\* The object count taken from the first fan-out entry, not the last.
index_object_count_first(fanout) == be_unsigned(fanout[1])

\* packset.rs:224-226: the object count is the last fan-out entry.
index_object_count(fanout) == be_unsigned(fanout[FanoutEntries])

GlacierProbe == 21

\* packset.rs:234-258: the Glacier tail.  The probe read of GlacierProbe
\* bytes consumes them when it succeeds; the flag is the byte after them.
read_glacier_tail(buf, pos) ==
    LET absent == [glacier_archive_id_present |-> FALSE,
                   glacier_archive_id |-> <<>>,
                   glacier_pack_size |-> 0]
        glacier_archive_id_flag == read_bytes(buf, pos + GlacierProbe, 1)
        glacier_archive_id_strlen == as_usize(read_arq_u64(buf, pos + GlacierProbe + 1))
        glacier_archive_id == read_bytes(buf, pos + GlacierProbe + 9,
                                         glacier_archive_id_strlen.val)
        glacier_pack_size == as_usize(read_arq_u64(buf, glacier_archive_id.pos))
    IN  IF ~IsOk(read_bytes(buf, pos, GlacierProbe)) THEN Ok(absent, pos)
        ELSE IF ~IsOk(glacier_archive_id_flag) THEN glacier_archive_id_flag
        ELSE IF glacier_archive_id_flag.val[1] # 1
        THEN Ok(absent, pos + GlacierProbe + 1)
        ELSE IF ~IsOk(glacier_archive_id_strlen) THEN glacier_archive_id_strlen
        ELSE IF ~IsOk(glacier_archive_id) THEN glacier_archive_id
        ELSE IF ~IsOk(glacier_pack_size) THEN glacier_pack_size
        ELSE Ok([glacier_archive_id_present |-> TRUE,
                 glacier_archive_id |-> glacier_archive_id.val,
                 glacier_pack_size |-> glacier_pack_size.val],
                glacier_pack_size.pos)

\* The trailer read and left uncompared.
check_trailing_sha1_uncompared(buf, overflow_checks) ==
    IF Len(buf) < Sha1Len
    THEN IF overflow_checks THEN Panic("attempt to subtract with overflow")
         ELSE Panic("capacity overflow")
    ELSE Ok(NoVal, Len(buf))

\* packset.rs:260-267 and 292-299: seek to the end, take all but the last 20
\* bytes from the start, and compare their SHA-1 with the 20 bytes after
\* them.  The u64 subtraction underflows on a stream shorter than 20 bytes:
\* a panic where the build checks overflow; where it does not, the length
\* wraps to 2^64 - 20 or more and vec! cannot allocate it.
check_trailing_sha1(buf, overflow_checks) ==
    IF Len(buf) < Sha1Len
    THEN IF overflow_checks THEN Panic("attempt to subtract with overflow")
         ELSE Panic("capacity overflow")
    ELSE LET sha1_checksum_start == Len(buf) - Sha1Len
             content == SubSeq(buf, 1, sha1_checksum_start)
             sha1 == SubSeq(buf, sha1_checksum_start + 1, Len(buf))
         IN  IF calculate_sha1sum(content) # sha1
             THEN Panic("assertion failed: calculate_sha1sum(&content) == sha1")
             ELSE Ok(NoVal, Len(buf))

IndexMagic == <<255, 116, 79, 99>>

PackIndex_new(buf, overflow_checks) ==
    LET magic_number == read_bytes(buf, 0, 4)
        version == read_bytes(buf, 4, 4)
        fanout == read_fanout(buf, 8)
        objects == read_index_objects(buf, fanout.pos,
                                      index_object_count(fanout.val), <<>>)
        glacier == read_glacier_tail(buf, objects.pos)
        checked == check_trailing_sha1(buf, overflow_checks)
    IN  IF ~IsOk(magic_number) THEN magic_number
        ELSE IF magic_number.val # IndexMagic
        THEN Panic("assertion failed: magic_number == IndexMagic")
        ELSE IF ~IsOk(version) THEN version
        ELSE IF ~IsOk(fanout) THEN fanout
        ELSE IF ~IsOk(objects) THEN objects
        ELSE IF ~IsOk(glacier) THEN glacier
        ELSE IF ~IsOk(checked) THEN checked
        ELSE Ok([version |-> version.val,
                 fanout |-> fanout.val,
                 objects |-> objects.val,
                 glacier_archive_id_present |-> glacier.val.glacier_archive_id_present,
                 glacier_archive_id |-> glacier.val.glacier_archive_id,
                 glacier_pack_size |-> glacier.val.glacier_pack_size],
                Len(buf))

\* PackObject::new: the flag is read as a bool, and the string that follows
\* it with read_arq_string, which reads a presence byte of its own.
\* packset.rs:324-340, the reads of PackObject::new in order.
PackObjectFields == <<"flagged_string", "flagged_string", "data">>

\* packset.rs:339-346: the PackObject of the values read, its data decoded
\* as an EncryptedObject.
PackObject_of(r) ==
    LET obj == EncryptedObject_new(r.val[3], 0)
    IN  IF ~IsOk(r) THEN r
        ELSE IF ~IsOk(obj) THEN obj
        ELSE Ok([mimetype |-> r.val[1], name |-> r.val[2], data |-> obj.val],
                r.pos)

PackObject_new(buf, pos) == PackObject_of(read_fields(buf, pos, PackObjectFields))

\* packset.rs:287-290
RECURSIVE read_pack_objects(_, _, _, _)
\* packset.rs:291: `objects.push(PackObject::new(&mut reader)?)`.
push_pack_object(buf, object_count, objects, o) ==
    IF ~IsOk(o) THEN o
    ELSE read_pack_objects(buf, o.pos, object_count - 1, Append(objects, o.val))

read_pack_objects(buf, pos, object_count, objects) ==
    IF object_count > 0
    THEN push_pack_object(buf, object_count, objects, PackObject_new(buf, pos))
    ELSE Ok(objects, pos)

PackMagic == <<80, 65, 67, 75>>

\* packset.rs:294-304: the trailing SHA-1 is checked once the objects are
\* read, and the Pack is returned.
Pack_of(buf, version, objects, overflow_checks) ==
    LET checked == check_trailing_sha1(buf, overflow_checks)
    IN  IF ~IsOk(objects) THEN objects
        ELSE IF ~IsOk(checked) THEN checked
        ELSE Ok([version |-> version, objects |-> objects.val], Len(buf))

Pack_new(buf, overflow_checks) ==
    LET signature == read_bytes(buf, 0, 4)
        version == read_bytes(buf, 4, 4)
        object_count == as_usize(read_arq_u64(buf, 8))
    IN  IF ~IsOk(signature) THEN signature
        ELSE IF signature.val # PackMagic
        THEN Panic("assertion failed: signature == PackMagic")
        ELSE IF ~IsOk(version) THEN version
        ELSE IF ~IsOk(object_count) THEN object_count
        ELSE Pack_of(buf, version.val,
                     read_pack_objects(buf, 16, object_count.val, <<>>),
                     overflow_checks)

\* PackObject::original
PackObject_original(self, compression_type, master_key) ==
    LET decrypted == EncryptedObject_decrypt(self.data, master_key)
    IN  IF ~IsOk(decrypted) THEN decrypted
        ELSE CompressionType_decompress(decrypted.val, compression_type)

\* The plist crate's from_reader (stand-in): a document is accepted when it
\* opens with '<' and closes with '>'.
plist_from_reader(content) ==
    IF Len(content) >= 2 /\ content[1] = 60 /\ content[Len(content)] = 62
    THEN Ok([document |-> content], 0)
    ELSE Err("ParseError")

Folder_from_content(content) == plist_from_reader(content)

\* plist::from_reader into a FolderData (stand-in): the value of the key
\* newHeadSHA1 is what the document holds between its '<' and its '>'.
FolderData_from_reader(content) ==
    LET doc == plist_from_reader(content)
    IN  IF ~IsOk(doc) THEN doc
        ELSE Ok([new_head_sha1 |-> SubSeq(content, 2, Len(content) - 1)], 0)

\* A FolderData::new that compares nothing.
FolderData_new_unchecked(content, sha1sum) == FolderData_from_reader(content)

\* folder.rs:32-46
FolderData_new(content, sha1sum) ==
    LET fd == FolderData_from_reader(content)
        n == Len(sha1sum)
        sha == from_utf8(SubSeq(sha1sum, 1, n - 1))
    IN  IF ~IsOk(fd) THEN fd
        ELSE IF n > 40
        THEN IF sha1sum[n] # 89
             THEN Panic("assertion failed: sha1sum[sha1sum.len() - 1] == 89")
             ELSE IF ~IsOk(sha) THEN sha
             ELSE IF sha.val # fd.val.new_head_sha1
             THEN Panic("assertion failed: sha1sum == fd.new_head_sha1")
             ELSE Ok(fd.val, 0)
        ELSE Ok(fd.val, 0)

FolderHeader == <<101, 110, 99, 114, 121, 112, 116, 101, 100>>

\* A Folder::new that decrypts without validating first.
Folder_new_unvalidated(buf, master_keys) ==
    LET header == read_bytes(buf, 0, 9)
        obj == EncryptedObject_new(buf, header.pos)
        decrypted == EncryptedObject_decrypt(obj.val, master_keys[1])
        folder == Folder_from_content(decrypted.val)
        aes_step == [step |-> "aes", obj |-> 0, key |-> master_keys[1],
                     ok |-> IsOk(decrypted)]
        plist_step == [step |-> "plist", obj |-> 0, key |-> <<>>,
                       ok |-> IsOk(folder)]
        done(r, s) == [ret |-> r, steps |-> s]
    IN  IF ~IsOk(header) THEN done(header, <<>>)
        ELSE IF header.val # FolderHeader
        THEN done(Panic("assertion failed: header"), <<>>)
        ELSE IF ~IsOk(obj) THEN done(obj, <<>>)
        ELSE IF Len(master_keys) < 2
        THEN done(Panic("index out of bounds"), <<>>)
        ELSE IF ~IsOk(decrypted) THEN done(decrypted, <<aes_step>>)
        ELSE done(folder, <<aes_step, plist_step>>)

\* Folder::new, with the steps it performs on the object: `steps` lists, in
\* order, the HMAC validation, the AES decryption and the deserialisation
\* of the plist it ran.
Folder_new(buf, master_keys) ==
    LET header == read_bytes(buf, 0, 9)
        obj == EncryptedObject_new(buf, header.pos)
        validated == EncryptedObject_validate(obj.val, master_keys[2])
        decrypted == EncryptedObject_decrypt(obj.val, master_keys[1])
        folder == Folder_from_content(decrypted.val)
        hmac_step == [step |-> "hmac", obj |-> 0, key |-> master_keys[2],
                      ok |-> IsOk(validated)]
        aes_step == [step |-> "aes", obj |-> 0, key |-> master_keys[1],
                     ok |-> IsOk(decrypted)]
        plist_step == [step |-> "plist", obj |-> 0, key |-> <<>>,
                       ok |-> IsOk(folder)]
        done(r, s) == [ret |-> r, steps |-> s]
    IN  IF ~IsOk(header) THEN done(header, <<>>)
        ELSE IF header.val # FolderHeader
        THEN done(Panic("assertion failed: header"), <<>>)
        ELSE IF ~IsOk(obj) THEN done(obj, <<>>)
        ELSE IF Len(master_keys) < 2
        THEN done(Panic("index out of bounds"), <<>>)
        ELSE IF ~IsOk(validated) THEN done(validated, <<hmac_step>>)
        ELSE IF ~IsOk(decrypted) THEN done(decrypted, <<hmac_step, aes_step>>)
        ELSE done(folder, <<hmac_step, aes_step, plist_step>>)

---------------------------------------------------------------------------
(* The streams the caller may hand over, built as the format comments of   *)
(* the source lay them out.                                                *)

zeros(n) == Rep(0, n)

enc_bool(b) == IF b THEN <<1>> ELSE <<0>>

\* A present string: flag 01, u64 length, bytes.  An absent one: flag 00.
enc_string(s) == <<1>> \o be_bytes(Len(s), 8) \o s

enc_absent == <<0>>

enc_data(d) == be_bytes(Len(d), 8) \o d

\* Replace byte i of s by another byte.
flip(s, i) == [s EXCEPT ![i] = (s[i] + 1) % 256]

\* A 40-character hex SHA-1 name, one per n.
hex_sha1(n) == convert_to_hex_string(calculate_sha1sum(<<n>>))

make_master_key(n) == [i \in 1..AesKeyLen |-> (16 * n + i) % 256]

\* The three master keys of the computer: K1 encrypts, K2 authenticates.
MasterKeys == <<make_master_key(1), make_master_key(2), make_master_key(3)>>

\* A key that belongs to no stream of the model.
OtherKey == make_master_key(4)

pkcs7_pad(p) ==
    LET n == AesBlock - (Len(p) % AesBlock) IN p \o Rep(n, n)

\* The inverse of cbc_decrypt_blocks, block after block.
RECURSIVE cbc_encrypt_blocks(_, _, _, _)
cbc_encrypt_blocks(key, prev, p, base) ==
    IF p = <<>> THEN <<>>
    ELSE LET c == [i \in 1..AesBlock |->
                     (p[i] + key[((base + i - 1) % AesKeyLen) + 1] + prev[i]) % 256]
         IN  c \o cbc_encrypt_blocks(key, c, SubSeq(p, AesBlock + 1, Len(p)),
                                     base + AesBlock)

aes256_cbc_encrypt(key, iv, plain) ==
    cbc_encrypt_blocks(key, iv, pkcs7_pad(plain), 0)

\* object_encryption.rs:206-213 "To create an EncryptedObject".
seal_object(k1, k2, plaintext) ==
    LET session_key == [i \in 1..AesKeyLen |-> (200 + 3 * i) % 256]
        data_iv == [i \in 1..AesBlock |-> 90 + i]
        master_iv == [i \in 1..AesBlock |-> 30 + 2 * i]
        ciphertext == aes256_cbc_encrypt(session_key, data_iv, plaintext)
        enc_div == aes256_cbc_encrypt(k1, master_iv, data_iv \o session_key)
        hmac == calculate_hmacsha256(k2, master_iv \o enc_div \o ciphertext).val
    IN  ARQO \o hmac \o master_iv \o enc_div \o ciphertext

PlistDoc == <<60, 112, 108, 105, 115, 116, 47, 62>>

NotPlist == <<104, 101, 108, 108, 111>>

ObjectVariants ==
    {"good", "flip_ciphertext", "flip_hmac", "flip_iv", "bad_header", "short",
     "other_keys", "swapped_keys"}

ObjectOrigins ==
    {[kind |-> "object", plaintext |-> p, variant |-> v] :
        p \in {PlistDoc, NotPlist}, v \in ObjectVariants}

object_stream(o) ==
    LET good == seal_object(MasterKeys[1], MasterKeys[2], o.plaintext)
    IN  CASE o.variant = "good" -> good
          [] o.variant = "flip_ciphertext" -> flip(good, Len(ARQO) + Sha256Len + AesBlock + 64 + 1)
          [] o.variant = "flip_hmac" -> flip(good, Len(ARQO) + 1)
          [] o.variant = "flip_iv" -> flip(good, Len(ARQO) + Sha256Len + 1)
          [] o.variant = "bad_header" -> flip(good, 1)
          [] o.variant = "short" -> SubSeq(good, 1, 100)
          [] o.variant = "other_keys" -> seal_object(OtherKey, OtherKey, o.plaintext)
          [] o.variant = "swapped_keys" ->
                seal_object(MasterKeys[2], MasterKeys[1], o.plaintext)

FolderOrigins ==
    {[kind |-> "folder", plaintext |-> o.plaintext, variant |-> o.variant,
      header |-> h] : o \in ObjectOrigins, h \in {"good", "bad"}}

folder_stream(o) ==
    (IF o.header = "good" THEN FolderHeader ELSE flip(FolderHeader, 9))
        \o object_stream(o)

\* object_encryption.rs:92-99 "To create the encryptionv3.dat file".
Password == <<101, 118, 117>>

WrongPasswords == {<<101, 118, 118>>, <<>>}

Salt == <<7, 6, 5, 4, 3, 2, 1, 0>>

DatVariants ==
    {"good", "bad_header", "flip_hmac", "flip_keys", "flip_iv", "flip_salt",
     "short", "bad_padding"}

DatOrigins == {[kind |-> "dat", variant |-> v] : v \in DatVariants}

dat_stream(o) ==
    LET iv == [i \in 1..AesBlock |-> 11 * i]
        key == derive_encryption_key(Password, Salt)
        plain == MasterKeys[1] \o MasterKeys[2] \o MasterKeys[3]
        enc == IF o.variant = "bad_padding"
               THEN cbc_encrypt_blocks(SubSeq(key, 1, 32), iv, plain \o zeros(16), 0)
               ELSE aes256_cbc_encrypt(SubSeq(key, 1, 32), iv, plain)
        hmac == calculate_hmacsha256(SubSeq(key, 33, 64), iv \o enc).val
        good == ENCRYPTIONV2 \o Salt \o hmac \o iv \o enc
    IN  CASE o.variant \in {"good", "bad_padding"} -> good
          [] o.variant = "bad_header" -> flip(good, 12)
          [] o.variant = "flip_salt" -> flip(good, 13)
          [] o.variant = "flip_hmac" -> flip(good, 21)
          [] o.variant = "flip_iv" -> flip(good, 53)
          [] o.variant = "flip_keys" -> flip(good, 180)
          [] o.variant = "short" -> SubSeq(good, 1, 179)

\* The most parent commits, tree nodes and pack or index objects a stream of
\* the model holds, and the largest compression tag it carries.
MaxParents == 2

MaxNodes == 2

MaxObjects == 2

MaxTag == 3

TagOrigins ==
    {[kind |-> "tag", bytes |-> be_bytes(t, 4)] : t \in 0..MaxTag}
      \cup {[kind |-> "tag", bytes |-> b] :
              b \in {<<255, 255, 255, 255>>, <<0, 0, 1, 0>>, <<0, 0, 0>>, <<>>,
                     <<0, 0, 0, 2, 9>>}}

absent_blob_key ==
    enc_absent \o enc_bool(FALSE) \o be_bytes(0, 4) \o enc_absent
        \o be_bytes(0, 8) \o enc_absent

present_blob_key(n) ==
    enc_string(hex_sha1(n)) \o enc_bool(TRUE) \o be_bytes(1, 4) \o enc_absent
        \o be_bytes(0, 8) \o enc_absent

\* tree.rs:387-414, the Commit format.
CommitHeader == <<67, 111, 109, 109, 105, 116, 86, 48, 49, 50>>

CommitVariants == {"good", "bad_header", "bad_version", "cut", "bad_tag",
                   "absent_tree_sha1", "empty_tree_sha1", "absent_parent_sha1"}

CommitOrigins ==
    {[kind |-> "commit", parents |-> n, declared |-> d, failed |-> f,
      variant |-> v] :
        n \in 0..MaxParents, d \in 0..MaxParents, f \in 0..1,
        v \in CommitVariants}

\* Parent entries whose sha1 is absent.
RECURSIVE enc_absent_parents(_)
enc_absent_parents(n) ==
    IF n = 0 THEN <<>>
    ELSE enc_absent_parents(n - 1) \o enc_absent \o enc_bool(TRUE)

RECURSIVE enc_parents(_)
enc_parents(n) ==
    IF n = 0 THEN <<>>
    ELSE enc_parents(n - 1) \o enc_string(hex_sha1(n)) \o enc_bool(TRUE)

commit_stream(o) ==
    LET head == (CASE o.variant = "bad_header" -> flip(CommitHeader, 1)
                   [] o.variant = "bad_version" -> flip(CommitHeader, 8)
                   [] OTHER -> CommitHeader)
        body == enc_string(<<97, 117, 116, 104>>) \o enc_absent
                  \o be_bytes(o.declared, 8)
                  \o (IF o.variant = "absent_parent_sha1"
                      THEN enc_absent_parents(o.parents)
                      ELSE enc_parents(o.parents))
                  \o (CASE o.variant = "absent_tree_sha1" -> enc_absent
                        [] o.variant = "empty_tree_sha1" -> enc_string(<<>>)
                        [] OTHER -> enc_string(hex_sha1(9)))
                  \o enc_bool(TRUE)
                  \o be_bytes(IF o.variant = "bad_tag" THEN 7 ELSE 2, 4)
                  \o enc_string(<<47, 97>>)
                  \o <<1>> \o be_bytes(1000, 8)
                  \o be_bytes(o.failed, 8)
                  \o (IF o.failed = 1
                      THEN enc_string(<<102>>) \o enc_string(<<101, 114, 114>>)
                      ELSE <<>>)
                  \o enc_bool(FALSE) \o enc_bool(TRUE)
                  \o enc_data(PlistDoc)
                  \o enc_string(<<53, 46, 49>>)
        all == head \o body
    IN  IF o.variant = "cut" THEN SubSeq(all, 1, Len(all) - 1) ELSE all

\* tree.rs:28-72, the Node format: node n carries uid n and `keys` present
\* data blob keys, the first of them after an absent one.
\* i32::MAX
MaxI32 == 2147483647

node_head ==
    enc_bool(FALSE) \o enc_bool(FALSE)
      \o be_bytes(0, 4) \o be_bytes(0, 4) \o be_bytes(0, 4)

node_tail(n) ==
    be_bytes(12, 8)
      \o absent_blob_key \o be_bytes(0, 8) \o absent_blob_key
      \o be_bytes(n, 4) \o be_bytes(20, 4) \o be_bytes(420, 4)
      \o zeros(8) \o zeros(8) \o zeros(8)
      \o zeros(4) \o zeros(4)
      \o enc_absent \o enc_absent \o enc_bool(FALSE)
      \o zeros(4) \o zeros(4) \o be_bytes(1, 4) \o zeros(4)
      \o zeros(8) \o zeros(8) \o zeros(8) \o zeros(8) \o be_bytes(8, 8)
      \o be_bytes(4096, 4)

node_stream(n, keys) ==
    node_head
      \o be_bytes(keys, 4)
      \o (IF keys = 0 THEN <<>>
          ELSE IF keys = 1 THEN absent_blob_key \o present_blob_key(n)
          ELSE absent_blob_key \o present_blob_key(n) \o present_blob_key(n + 100))
      \o node_tail(n)

\* The i32 count of a node, big-endian: zero or more, a small negative
\* number, or i32::MAX.
enc_count(c) ==
    IF c = MaxI32 THEN <<127, 255, 255, 255>>
    ELSE IF c < 0 THEN <<255, 255, 255, 256 + c>>
    ELSE be_bytes(c, 4)

\* The BlobKey records of a node: slot 0 is an absent key, slot n > 0 the
\* present key of the name hex_sha1(n).
RECURSIVE enc_slots(_, _)
enc_slots(slots, i) ==
    IF i > Len(slots) THEN <<>>
    ELSE (IF slots[i] = 0 THEN absent_blob_key ELSE present_blob_key(slots[i]))
           \o enc_slots(slots, i + 1)

\* tree.rs:39-42: a node that declares `count` data blob keys and carries
\* the records of `slots`; `cut` drops its last byte.
NodeOrigins ==
    {[kind |-> "node", count |-> l[1], slots |-> l[2], cut |-> c] :
        l \in {<<0 - 1, <<>>>>, <<0, <<>>>>, <<1, <<1>>>>, <<1, <<0, 1>>>>,
               <<1, <<0, 0, 1>>>>, <<2, <<1, 2>>>>, <<2, <<0, 2, 0, 1>>>>,
               <<2, <<1, 0, 2>>>>, <<0, <<1>>>>, <<1, <<0>>>>, <<2, <<1>>>>,
               <<MaxI32, <<0, 0>>>>},
        c \in BOOLEAN}

node_record(o) ==
    LET all == node_head \o enc_count(o.count) \o enc_slots(o.slots, 1)
                 \o node_tail(7)
    IN  IF o.cut THEN SubSeq(all, 1, Len(all) - 1) ELSE all

\* The names a tree entry may carry: "a", "b", a present string of length
\* zero, and an absent string.
NodeNames == {<<97>>, <<98>>, <<>>, <<0>>}

enc_node_name(name) ==
    IF name = <<0>> THEN enc_absent ELSE enc_string(name)

RECURSIVE SeqsUpTo(_, _)
SeqsUpTo(S, n) ==
    IF n = 0 THEN {<<>>}
    ELSE LET shorter == SeqsUpTo(S, n - 1)
         IN  shorter \cup {Append(s, x) : s \in {t \in shorter : Len(t) = n - 1},
                                          x \in S}

TreeVariants ==
    {"good", "bad_header", "bad_version", "cut", "count_short", "not_digits",
     "plus_sign"}

TreeOrigins ==
    {[kind |-> "tree", names |-> ns, keys |-> k, variant |-> v] :
        ns \in SeqsUpTo(NodeNames, MaxNodes), k \in 0..1, v \in TreeVariants}

RECURSIVE enc_nodes(_, _, _)
enc_nodes(names, i, keys) ==
    IF i > Len(names) THEN <<>>
    ELSE enc_node_name(names[i]) \o node_stream(i, keys)
           \o enc_nodes(names, i + 1, keys)

TreeHeader == <<84, 114, 101, 101, 86, 48, 50, 50>>

\* tree.rs:218-259, the Tree format.
tree_stream(o) ==
    LET head == (CASE o.variant = "bad_header" -> flip(TreeHeader, 1)
                   [] o.variant = "bad_version" -> flip(TreeHeader, 6)
                   [] o.variant = "not_digits" ->
                        <<84, 114, 101, 101, 86, 48, 120, 50>>
                   [] o.variant = "plus_sign" ->
                        <<84, 114, 101, 101, 86, 43, 50, 50>>
                   [] OTHER -> TreeHeader)
        n == Len(o.names)
        body == be_bytes(0, 4) \o be_bytes(0, 4)
                  \o absent_blob_key \o be_bytes(0, 8) \o absent_blob_key
                  \o be_bytes(501, 4) \o be_bytes(20, 4) \o be_bytes(16877, 4)
                  \o zeros(8) \o zeros(8) \o zeros(8)
                  \o zeros(4) \o zeros(4)
                  \o zeros(4) \o zeros(4) \o be_bytes(4, 4) \o zeros(4)
                  \o zeros(8) \o zeros(8) \o zeros(8) \o be_bytes(4096, 4)
                  \o zeros(8) \o zeros(8)
                  \o be_bytes(1, 4) \o enc_string(<<109>>)
                  \o be_bytes(IF o.variant = "count_short" /\ n > 0
                              THEN n - 1 ELSE n, 4)
                  \o enc_nodes(o.names, 1, o.keys)
        all == head \o body
    IN  IF o.variant = "cut" THEN SubSeq(all, 1, Len(all) - 1) ELSE all

\* A stream in the framing lz4_decompress reads: the i32 length of the
\* content, then one LZ4 sequence of literals only.
RECURSIVE lz4_length_bytes(_)
lz4_length_bytes(n) ==
    IF n >= 255 THEN <<255>> \o lz4_length_bytes(n - 255) ELSE <<n>>

lz4_store(content) ==
    LET n == Len(content)
    IN  be_bytes(n, 4)
          \o (IF n < 15 THEN <<16 * n>> ELSE <<240>> \o lz4_length_bytes(n - 15))
          \o content

\* lz4_sys::LZ4_compressBound
LZ4_compressBound(n) == n + (n \div 255) + 16

\* Whether no four consecutive bytes of src occur twice in it: LZ4 finds no
\* match in such an input, and in none shorter than 13 bytes.
lz4_finds_no_match(src) ==
    IF Len(src) < 13 THEN TRUE
    ELSE {w \in (1..(Len(src) - 3)) \X (1..(Len(src) - 3)) :
            /\ w[1] < w[2]
            /\ SubSeq(src, w[1], w[1] + 3) = SubSeq(src, w[2], w[2] + 3)} = {}

\* lz4_sys::LZ4_compress_default of an input in which it finds no match:
\* one sequence of literals.
LZ4_compress_default(src) ==
    (IF Len(src) < 15 THEN <<16 * Len(src)>>
     ELSE <<240>> \o lz4_length_bytes(Len(src) - 15)) \o src

\* lz4.rs:8-34: the i32 that LZ4_compressBound gives, then a buffer of that
\* many bytes, zero-filled, into which the block is written.
lz4_compress(src) ==
    LET original_len == LZ4_compressBound(Len(src))
        block == LZ4_compress_default(src)
    IN  Ok(be_bytes(original_len, 4) \o block
             \o zeros(original_len - Len(block)), 0)

\* packset.rs:38-79, the Pack File Format.  `layout` is how the optional
\* strings of an object are laid out: both absent ("none"), present as the
\* format comment draws them ("doc"), or present with the presence byte
\* that read_arq_string reads after the flag ("code").
PackLayouts == {"none", "doc", "code"}

PackVariants == {"good", "flip_content", "flip_trailer", "bad_magic", "short",
                 "extra", "count_short", "count_long"}

PackOrigins ==
    {[kind |-> "pack", count |-> n, layout |-> l, payload |-> p, variant |-> v] :
        n \in 0..MaxObjects, l \in PackLayouts,
        p \in {"good", "flip_ciphertext"}, v \in PackVariants}

\* What object i of a pack holds once decrypted: a plist, or the LZ4 frame
\* of a short text.
pack_plaintext(i) == IF i = 1 THEN PlistDoc ELSE lz4_store(NotPlist)

pack_object_stream(i, layout, payload) ==
    LET mimetype == <<116, 120, 116>>
        name == <<110, 48 + i>>
        data == object_stream([kind |-> "object",
                               plaintext |-> pack_plaintext(i),
                               variant |-> payload])
        opt(s) == CASE layout = "none" -> <<0>>
                    [] layout = "doc" -> <<1>> \o be_bytes(Len(s), 8) \o s
                    [] layout = "code" -> <<1>> \o enc_string(s)
    IN  opt(mimetype) \o opt(name) \o enc_data(data)

RECURSIVE pack_objects_stream(_, _, _)
pack_objects_stream(n, layout, payload) ==
    IF n = 0 THEN <<>>
    ELSE pack_objects_stream(n - 1, layout, payload)
           \o pack_object_stream(n, layout, payload)

with_trailer(content) == content \o calculate_sha1sum(content)

pack_stream(o) ==
    LET declared == CASE o.variant = "count_short" /\ o.count > 0 -> o.count - 1
                      [] o.variant = "count_long" -> o.count + 1
                      [] OTHER -> o.count
        content == PackMagic \o be_bytes(2, 4) \o be_bytes(declared, 8)
                     \o pack_objects_stream(o.count, o.layout, o.payload)
                     \o (IF o.variant = "extra" THEN <<9, 9, 9>> ELSE <<>>)
        good == with_trailer(content)
    IN  CASE o.variant = "flip_content" -> flip(good, 8)
          [] o.variant = "flip_trailer" -> flip(good, Len(good))
          [] o.variant = "bad_magic" -> with_trailer(flip(content, 1))
          [] o.variant = "short" -> SubSeq(good, 1, 16)
          [] OTHER -> good

\* packset.rs:113-175, the Pack Index Format.  `shape` is how the fan-out
\* table is filled: from the first bytes of the SHA-1s ("counted"), with the
\* total everywhere ("flat"), with a first entry above the ones after it
\* ("decreasing"), with a total above the records present ("overcount") or
\* below them ("undercount").
IndexShapes == {"counted", "flat", "decreasing", "overcount", "undercount"}

IndexTails == {"none", "tail", "tail_long"}

IndexVariants == {"good", "flip_content", "flip_trailer", "bad_magic", "cut"}

IndexOrigins ==
    {[kind |-> "index", count |-> n, shape |-> s, tail |-> t, variant |-> v] :
        n \in 0..MaxObjects, s \in IndexShapes, t \in IndexTails,
        v \in IndexVariants}

index_sha1(i) == calculate_sha1sum(<<i, 2 * i>>)

index_fanout(n, shape) ==
    [j \in 1..FanoutEntries |->
        CASE shape = "counted" ->
                Cardinality({i \in 1..n : index_sha1(i)[1] <= j - 1})
          [] shape = "flat" -> n
          [] shape = "decreasing" -> IF j = 1 THEN n + 1 ELSE n
          [] shape = "overcount" -> IF j = FanoutEntries THEN n + 1 ELSE 0
          [] shape = "undercount" ->
                IF j = FanoutEntries /\ n > 0 THEN n - 1 ELSE 0]

index_fanout_stream(n, shape) ==
    LET f == index_fanout(n, shape)
    IN  [k \in 1..(4 * FanoutEntries) |->
            be_bytes(f[((k - 1) \div 4) + 1], 4)[((k - 1) % 4) + 1]]

RECURSIVE index_objects_stream(_)
index_objects_stream(n) ==
    IF n = 0 THEN <<>>
    ELSE index_objects_stream(n - 1)
           \o be_bytes(100 * n, 8) \o be_bytes(40 + n, 8) \o index_sha1(n)
           \o zeros(4)

glacier_archive_id(tail) ==
    IF tail = "tail" THEN <<103, 105, 100>>
    ELSE [i \in 1..16 |-> IF i = 13 THEN 1 ELSE 64 + i]

glacier_pack_size(tail) == IF tail = "tail" THEN 77 ELSE 4242

glacier_stream(tail) ==
    IF tail = "none" THEN <<>>
    ELSE <<1>> \o enc_data(glacier_archive_id(tail))
           \o be_bytes(glacier_pack_size(tail), 8)

index_stream(o) ==
    LET content == IndexMagic \o be_bytes(2, 4)
                     \o index_fanout_stream(o.count, o.shape)
                     \o index_objects_stream(o.count)
                     \o glacier_stream(o.tail)
        good == with_trailer(content)
    IN  CASE o.variant = "flip_content" -> flip(good, 8)
          [] o.variant = "flip_trailer" -> flip(good, Len(good) - 3)
          [] o.variant = "bad_magic" -> with_trailer(flip(content, 2))
          [] o.variant = "cut" -> SubSeq(good, 1, 1000)
          [] OTHER -> good

\* Streams in the framing lz4_decompress reads, around a tree body or a
\* short text: the frame lz4_store makes of it, one declaring three bytes
\* more or one byte less than the block holds, one whose block lost its last
\* two bytes, one whose block copies a match from offset 0, and one whose
\* declared length is -1.
Lz4Variants == {"good", "padded", "too_small", "cut", "bad_offset", "negative"}

Lz4Origins ==
    {[kind |-> "lz4", content |-> c, variant |-> v] :
        c \in {"tree", "text"}, v \in Lz4Variants}

lz4_content(o) ==
    IF o.content = "tree"
    THEN tree_stream([kind |-> "tree", names |-> << <<97>> >>, keys |-> 0,
                      variant |-> "good"])
    ELSE NotPlist

lz4_frame(o) ==
    LET content == lz4_content(o)
        n == Len(content)
        good == lz4_store(content)
        block == SubSeq(good, 5, Len(good))
    IN  CASE o.variant = "good" -> good
          [] o.variant = "padded" -> be_bytes(n + 3, 4) \o block
          [] o.variant = "too_small" -> be_bytes(n - 1, 4) \o block
          [] o.variant = "cut" -> SubSeq(good, 1, Len(good) - 2)
          [] o.variant = "bad_offset" ->
                be_bytes(n, 4) \o <<16, content[1], 0, 0>>
          [] o.variant = "negative" -> <<255, 255, 255, 255>> \o block

---------------------------------------------------------------------------
(* The state machine: a caller holds one byte stream, hands it to one of   *)
(* the decoders, and then calls the methods of the objects it got back.    *)

\* The largest length an LZ4 frame of the model declares.
MaxDeclared == 2048

Origins ==
    TagOrigins \cup CommitOrigins \cup TreeOrigins \cup ObjectOrigins
      \cup FolderOrigins \cup DatOrigins \cup PackOrigins \cup IndexOrigins
      \cup NodeOrigins \cup Lz4Origins

stream_of(o) ==
    CASE o.kind = "tag" -> o.bytes
      [] o.kind = "commit" -> commit_stream(o)
      [] o.kind = "tree" -> tree_stream(o)
      [] o.kind = "object" -> object_stream(o)
      [] o.kind = "folder" -> folder_stream(o)
      [] o.kind = "dat" -> dat_stream(o)
      [] o.kind = "pack" -> pack_stream(o)
      [] o.kind = "index" -> index_stream(o)
      [] o.kind = "node" -> node_record(o)
      [] o.kind = "lz4" -> lz4_frame(o)

CompressionTypes == {"None", "Gzip", "LZ4"}

\* The keys a caller may pass: K1, K2, a key of another computer, and a
\* slice that is no key at all.
KeyChoices == {MasterKeys[1], MasterKeys[2], OtherKey, <<1, 2, 3>>}

KeyRings ==
    {MasterKeys, <<MasterKeys[2], MasterKeys[1], MasterKeys[3]>>,
     <<MasterKeys[1]>>}

\* vec![0; n] of a length the model can hold.
lz4_declared_fits(bytes) ==
    IF Len(bytes) < 4 THEN TRUE
    ELSE be_i32(SubSeq(bytes, 1, 4)) <= MaxDeclared

called(op, arg, ret) == [op |-> op, arg |-> arg, ret |-> ret]

Init ==
    /\ origin \in Origins
    /\ input = stream_of(origin)
    /\ pc = "ready"
    /\ result = called("none", <<>>, NoVal)
    /\ objs = <<>>
    /\ held = "none"
    /\ log = <<>>
    /\ validated_objs = {}

Returned(op, arg, ret) ==
    /\ pc = "ready"
    /\ pc' = "built"
    /\ result' = called(op, arg, ret)
    /\ UNCHANGED <<input, origin, validated_objs>>

\* A constructor returned a value the caller keeps and calls methods on.
Kept(op, ret, kind, kept) ==
    /\ Returned(op, <<>>, ret)
    /\ objs' = IF IsOk(ret) THEN kept ELSE <<>>
    /\ held' = IF IsOk(ret) THEN kind ELSE "none"
    /\ UNCHANGED log

Call_CompressionType_new ==
    /\ Returned("CompressionType::new", <<>>, CompressionType_new(input, 0))
    /\ UNCHANGED <<objs, held, log>>

Call_ArqCompressionType_new ==
    /\ Returned("ArqCompressionType::new", <<>>, ArqCompressionType_new(input, 0))
    /\ UNCHANGED <<objs, held, log>>

Call_Commit_new ==
    /\ Returned("Commit::new", <<>>, Commit_new(input, 0))
    /\ UNCHANGED <<objs, held, log>>

Call_Node_new ==
    /\ Returned("Node::new", <<>>, Node_new(input, 0))
    /\ UNCHANGED <<objs, held, log>>

Call_Tree_new ==
    \E compression_type \in CompressionTypes :
        /\ IF compression_type = "LZ4" THEN lz4_declared_fits(input) ELSE TRUE
        /\ Returned("Tree::new", compression_type,
                    Tree_new(input, compression_type))
        /\ UNCHANGED <<objs, held, log>>

Call_lz4_decompress ==
    /\ lz4_declared_fits(input)
    /\ Returned("lz4_decompress", <<>>, lz4_decompress(input))
    /\ UNCHANGED <<objs, held, log>>

Call_EncryptionDat_new ==
    \E password \in {Password} \cup WrongPasswords :
        /\ Returned("EncryptionDat::new", password,
                    EncryptionDat_new(input, password))
        /\ UNCHANGED <<objs, held, log>>

KeptObject(ret) ==
    Kept("EncryptedObject::new", ret, "object",
         IF IsOk(ret) THEN <<ret.val>> ELSE <<>>)

Call_EncryptedObject_new == KeptObject(EncryptedObject_new(input, 0))

Call_Folder_new ==
    \E master_keys \in KeyRings :
        LET r == Folder_new(input, master_keys)
        IN  /\ Returned("Folder::new", master_keys, r.ret)
            /\ log' = r.steps
            /\ UNCHANGED <<objs, held>>

KeptPack(ret) ==
    Kept("Pack::new", ret, "pack",
         IF IsOk(ret) THEN ret.val.objects ELSE <<>>)

\* The build the caller runs is one with or without overflow checks.
Call_Pack_new ==
    \E overflow_checks \in BOOLEAN : KeptPack(Pack_new(input, overflow_checks))

Call_PackIndex_new ==
    /\ \E overflow_checks \in BOOLEAN :
          Returned("PackIndex::new", <<>>, PackIndex_new(input, overflow_checks))
    /\ UNCHANGED <<objs, held, log>>

MethodCalled(op, arg, ret, step) ==
    /\ pc = "built"
    /\ result' = called(op, arg, ret)
    /\ log' = <<[step |-> step, obj |-> arg.obj, key |-> arg.key,
                 ok |-> IsOk(ret)]>>
    /\ validated_objs' = IF step = "hmac" /\ IsOk(ret)
                          THEN validated_objs \cup {arg.obj}
                          ELSE validated_objs
    /\ UNCHANGED <<input, origin, pc, objs, held>>

Call_EncryptedObject_validate ==
    /\ held = "object"
    /\ \E i \in DOMAIN objs, master_key \in KeyChoices :
          MethodCalled("EncryptedObject::validate",
                       [obj |-> i, key |-> master_key],
                       EncryptedObject_validate(objs[i], master_key), "hmac")

Call_EncryptedObject_decrypt ==
    /\ held = "object"
    /\ \E i \in DOMAIN objs, master_key \in KeyChoices :
          MethodCalled("EncryptedObject::decrypt",
                       [obj |-> i, key |-> master_key],
                       EncryptedObject_decrypt(objs[i], master_key), "aes")

Call_PackObject_original ==
    /\ held = "pack"
    /\ \E i \in DOMAIN objs, master_key \in KeyChoices,
          compression_type \in CompressionTypes :
          LET decrypted == EncryptedObject_decrypt(objs[i].data, master_key)
          IN  /\ IF compression_type = "LZ4" /\ IsOk(decrypted)
                 THEN lz4_declared_fits(decrypted.val) ELSE TRUE
              /\ MethodCalled("PackObject::original",
                     [obj |-> i, key |-> master_key, ct |-> compression_type],
                     PackObject_original(objs[i], compression_type, master_key),
                     "aes")

Next ==
    \/ Call_CompressionType_new
    \/ Call_ArqCompressionType_new
    \/ Call_Commit_new
    \/ Call_Tree_new
    \/ Call_Node_new
    \/ Call_lz4_decompress
    \/ Call_EncryptionDat_new
    \/ Call_EncryptedObject_new
    \/ Call_Folder_new
    \/ Call_Pack_new
    \/ Call_PackIndex_new
    \/ Call_EncryptedObject_validate
    \/ Call_EncryptedObject_decrypt
    \/ Call_PackObject_original

Spec == Init /\ [][Next]_vars

---------------------------------------------------------------------------
(* The reader and the functions on plain buffers.  A second specification: *)
(* the caller holds a reader (std::io::Cursor) over `input` and calls the   *)
(* reads of ArqRead and the decoders that take `&mut reader`, one after     *)
(* the other; objs[1].pos is the reader's position.                         *)

\* A string field of a record: <<0>> stands for the absent string (flag 00),
\* every other value for a present string of these bytes.
enc_optional_string(s) == IF s = <<0>> THEN enc_absent ELSE enc_string(s)

optional_string_value(s) == IF s = <<0>> THEN <<>> ELSE s

\* A date field: a negative value stands for the absent date.
enc_date(ms) == IF ms < 0 THEN <<0>> ELSE <<1>> \o be_bytes(ms, 8)

date_value(ms) ==
    [milliseconds_since_epoch |->
        IF ms < 0 THEN wide_zero ELSE u64_from_be_bytes(be_bytes(ms, 8))]

\* blob.rs:21-27, the six fields of a BlobKey record, then `extra` bytes
\* that belong to what follows it; `cut` drops the last byte of the record.
BlobOrigins ==
    {[kind |-> "blob", sha1 |-> s, stretched |-> b, storage_type |-> t,
      archive_id |-> a, archive_size |-> z, date |-> d, cut |-> c,
      extra |-> e] :
        s \in {<<0>>, <<>>, <<97, 98>>}, b \in {TRUE}, t \in {2},
        a \in {<<0>>, <<120>>}, z \in {7}, d \in {0 - 1, 5},
        c \in BOOLEAN, e \in {<<>>, <<1>>}}

blob_record(o) ==
    enc_optional_string(o.sha1) \o enc_bool(o.stretched)
        \o be_bytes(o.storage_type, 4) \o enc_optional_string(o.archive_id)
        \o be_bytes(o.archive_size, 8) \o enc_date(o.date)

blob_stream(o) ==
    (IF o.cut THEN SubSeq(blob_record(o), 1, Len(blob_record(o)) - 1)
     ELSE blob_record(o)) \o o.extra

\* Plain buffers: the bytes of the source's test_read_bytes, and the commit
\* header whole, cut to each length, with one byte changed, and followed by
\* more bytes.
BytesOrigins ==
    {[kind |-> "bytes", bytes |-> b] :
        b \in {<<12, 34, 11, 56, 78, 92>>}
              \cup {SubSeq(CommitHeader \o <<0, 1>>, 1, n) : n \in 0..12}
              \cup {flip(CommitHeader, i) \o <<0>> : i \in 1..10}}

\* folder.rs:11-29, a head record: a document that holds the new head's
\* SHA-1 (or none), or bytes that are no plist.
FolderDataOrigins ==
    {[kind |-> "folderdata", plist |-> b, sha1 |-> h] :
        b \in BOOLEAN, h \in {hex_sha1(1), <<>>}}

folderdata_stream(o) ==
    IF o.plist THEN <<60>> \o o.sha1 \o <<62>> ELSE NotPlist \o o.sha1

\* The identifiers a caller passes with a head record: the SHA-1 of the
\* record, another one, and each of them with a 'Y' or another byte or two
\* bytes appended; an identifier that is no UTF-8; the empty one.
Sha1sums ==
    {hex_sha1(1), hex_sha1(2), <<>>,
     hex_sha1(1) \o <<89>>, hex_sha1(2) \o <<89>>, hex_sha1(1) \o <<90>>,
     hex_sha1(1) \o <<89, 89>>, hex_sha1(1) \o <<89, 90>>,
     [hex_sha1(1) EXCEPT ![3] = 255] \o <<89>>}

\* lz4.rs:55, the string of test_lz4.
TestString ==
    <<84, 101, 115, 116, 32, 115, 116, 114, 105, 110, 103, 32, 119, 101, 32,
      119, 97, 110, 116, 32, 116, 111, 32, 99, 111, 109, 112, 114, 101, 115,
      115>>

PlainOrigins ==
    {[kind |-> "bytes", bytes |-> b] :
        b \in {TestString, SubSeq(TestString, 1, 15), SubSeq(TestString, 1, 14),
               <<104, 105>>}}

\* type_utils.rs:213-223, the streams of test_read_arq_string: no string, and
\* the string AHBH; then that string under another presence byte, followed
\* by one more byte, short of a byte, and holding a byte that is no UTF-8;
\* and lengths that no stream fulfils.
StringOrigins ==
    {[kind |-> "bytes", bytes |-> b] :
        b \in {<<0>>,
               <<1, 0, 0, 0, 0, 0, 0, 0, 4, 65, 72, 66, 72>>,
               <<2, 0, 0, 0, 0, 0, 0, 0, 4, 65, 72, 66, 72>>,
               <<1, 0, 0, 0, 0, 0, 0, 0, 4, 65, 72, 66, 72, 1>>,
               <<1, 0, 0, 0, 0, 0, 0, 0, 4, 65, 72, 66>>,
               <<1, 0, 0, 0, 0, 0, 0, 0, 2, 65, 255>>,
               <<1, 0, 0, 0, 0, 0, 0, 0, 0>>,
               <<1, 0, 0, 0, 1, 0, 0, 0, 0, 65>>,
               <<1, 255, 255, 255, 255, 255, 255, 255, 255, 65>>}}

\* type_utils.rs:145-186, the streams of test_read_arq_u32, _i32, _u64 and
\* _i64, and the bytes of the least i64.
IntOrigins ==
    {[kind |-> "bytes", bytes |-> b] :
        b \in {<<0, 0, 0, 2, 255, 255, 255, 255>>,
               <<0, 0, 0, 2, 254, 255, 255, 255>>,
               <<0, 0, 0, 0, 0, 0, 0, 2, 0, 0, 0, 0, 254, 255, 255, 255>>,
               <<0, 0, 0, 0, 0, 0, 0, 2, 254, 255, 255, 255, 255, 255, 255, 255,
                 127, 255, 255, 255, 255, 255, 255, 255>>,
               <<128, 0, 0, 0, 0, 0, 0, 0>>}}

\* type_utils.rs:240-249, the streams of test_read_arq_date: no date, and
\* 1987-05-17 17:29:45; then that date under another presence byte, followed
\* by one more byte, and short of bytes; a date in the year 10889, and the
\* greatest u64.
DateOrigins ==
    {[kind |-> "bytes", bytes |-> b] :
        b \in {<<0>>,
               <<1, 0, 0, 0, 127, 167, 127, 83, 0>>,
               <<2, 0, 0, 0, 127, 167, 127, 83, 0>>,
               <<1, 0, 0, 0, 127, 167, 127, 83, 0, 1>>,
               <<1, 0, 0, 0, 127>>,
               <<1, 0, 1, 0, 0, 0, 0, 0, 0>>,
               <<1, 255, 255, 255, 255, 255, 255, 255, 255>>}}

ReaderOrigins ==
    BlobOrigins \cup BytesOrigins \cup FolderDataOrigins \cup PlainOrigins
        \cup StringOrigins \cup IntOrigins \cup DateOrigins

reader_stream(o) ==
    CASE o.kind = "blob" -> blob_stream(o)
      [] o.kind = "bytes" -> o.bytes
      [] o.kind = "folderdata" -> folderdata_stream(o)

ReaderInit ==
    /\ origin \in ReaderOrigins
    /\ input = reader_stream(origin)
    /\ pc = "built"
    /\ result = called("none", <<>>, NoVal)
    /\ objs = <<[pos |-> 0]>>
    /\ held = "reader"
    /\ log = <<>>
    /\ validated_objs = {}

\* A call on the reader: a call that returns Ok leaves the reader where its
\* last read ended; a failed read_exact leaves it at a position that std
\* does not specify.  The caller goes on while its calls succeed, as every
\* caller in the source does with `?` and `unwrap`.
ReaderCalled(op, arg, ret) ==
    /\ held = "reader"
    /\ result' = called(op, [pos |-> objs[1].pos, arg |-> arg], ret)
    /\ \E p \in (IF IsOk(ret) THEN {ret.pos} ELSE objs[1].pos..Len(input)) :
          objs' = <<[pos |-> p]>>
    /\ held' = IF IsOk(ret) THEN held ELSE "none"
    /\ UNCHANGED <<input, origin, pc, log, validated_objs>>

\* A call of a function that takes the buffer, not the reader.
BufferCalled(op, arg, ret) ==
    /\ held = "reader"
    /\ result' = called(op, [pos |-> objs[1].pos, arg |-> arg], ret)
    /\ held' = IF IsOk(ret) THEN held ELSE "none"
    /\ UNCHANGED <<input, origin, pc, objs, log, validated_objs>>

Call_BlobKey_new ==
    ReaderCalled("BlobKey::new", <<>>, BlobKey_new(input, objs[1].pos))

Call_Commit_is_commit ==
    BufferCalled("Commit::is_commit", <<>>, Commit_is_commit(input))

Call_FolderData_new ==
    \E sha1sum \in Sha1sums :
        BufferCalled("FolderData::new", sha1sum, FolderData_new(input, sha1sum))

\* lz4.rs:56, lz4_decompress(&lz4_compress(&test).unwrap()).
lz4_round_trip(src) ==
    LET compressed == lz4_compress(src)
    IN  IF ~IsOk(compressed) THEN compressed
        ELSE lz4_decompress(compressed.val)

Call_lz4_round_trip ==
    /\ lz4_finds_no_match(input)
    /\ BufferCalled("lz4_decompress(lz4_compress)", <<>>, lz4_round_trip(input))

Call_read_arq_string ==
    ReaderCalled("read_arq_string", <<>>, read_arq_string(input, objs[1].pos))

\* type_utils.rs:140-142 asks for 2, 4 and 0 bytes; a usize may also be
\* above isize::MAX.
ReadCounts == {0, 2, 4, Overflowing}

Call_read_bytes ==
    \E count \in ReadCounts :
        ReaderCalled("read_bytes", count, read_bytes(input, objs[1].pos, count))

Call_read_arq_u32 ==
    ReaderCalled("read_arq_u32", <<>>, read_arq_u32(input, objs[1].pos))

Call_read_arq_i32 ==
    ReaderCalled("read_arq_i32", <<>>, read_arq_i32(input, objs[1].pos))

Call_read_arq_u64 ==
    ReaderCalled("read_arq_u64", <<>>, read_arq_u64(input, objs[1].pos))

Call_read_arq_i64 ==
    ReaderCalled("read_arq_i64", <<>>, read_arq_i64(input, objs[1].pos))

Call_Date_new ==
    ReaderCalled("Date::new", <<>>, Date_new(input, objs[1].pos))

Call_read_arq_date ==
    ReaderCalled("read_arq_date", <<>>, read_arq_date(input, objs[1].pos))

\* format!("{}", date) of the date that was just decoded.
Call_Date_fmt ==
    /\ result.op = "Date::new"
    /\ BufferCalled("Date::fmt", result.ret.val, Date_fmt(result.ret.val))

Call_ArqDate_fmt ==
    /\ result.op = "read_arq_date"
    /\ BufferCalled("ArqDate::fmt", result.ret.val, ArqDate_fmt(result.ret.val))

ReaderNext ==
    \/ Call_BlobKey_new
    \/ Call_Commit_is_commit
    \/ Call_FolderData_new
    \/ Call_lz4_round_trip
    \/ Call_read_arq_string
    \/ Call_read_bytes
    \/ Call_read_arq_u32
    \/ Call_read_arq_i32
    \/ Call_read_arq_u64
    \/ Call_read_arq_i64
    \/ Call_Date_new
    \/ Call_read_arq_date
    \/ Call_Date_fmt
    \/ Call_ArqDate_fmt

ReaderSpec == ReaderInit /\ [][ReaderNext]_vars

---------------------------------------------------------------------------
(* The claims.                                                             *)

\* C1: on every path that yields plaintext of an EncryptedObject, the
\* object's HMAC has been validated successfully before an AES decryption of
\* it runs: every AES step that returned bytes is on an object that an
\* earlier call validated, or comes after a successful HMAC step on the same
\* object within the call.
C1_HmacValidatedBeforeAes ==
    \A i \in DOMAIN log :
        (log[i].step = "aes" /\ log[i].ok) =>
            \/ log[i].obj \in validated_objs
            \/ \E j \in 1..(i - 1) :
                  /\ log[j].step = "hmac"
                  /\ log[j].ok
                  /\ log[j].obj = log[i].obj

\* C2: when the HMAC-SHA256 of (master_iv, encrypted_data_iv_session,
\* ciphertext) under the key given differs from the HMAC stored in the
\* object, EncryptedObject::validate returns the error value CryptoError.
C2_ValidateMismatchIsCryptoError ==
    (/\ result.op = "EncryptedObject::validate"
     /\ calculate_hmacsha256(result.arg.key,
            objs[result.arg.obj].master_iv
              \o objs[result.arg.obj].encrypted_data_iv_session
              \o objs[result.arg.obj].ciphertext).val
          # objs[result.arg.obj].hmac_sha256)
      => result.ret = Err("CryptoError")

\* C3: EncryptionDat::new, given a password whose derived key (bytes 32..64)
\* does not reproduce the file's HMAC over (iv, encrypted_master_keys),
\* returns WrongPassword, whatever the AES decryption of the master keys
\* would have given.
C3_WrongPasswordNeverCipherError ==
    (/\ result.op = "EncryptionDat::new"
     /\ Len(input) >= 180
     /\ SubSeq(input, 1, 12) = ENCRYPTIONV2
     /\ calculate_hmacsha256(
            SubSeq(derive_encryption_key(result.arg, SubSeq(input, 13, 20)), 33, 64),
            SubSeq(input, 53, 180)).val
          # SubSeq(input, 21, 52))
      => result.ret = Err("WrongPassword")

\* C3 happens: a wrong password on a well-formed file is answered with
\* WrongPassword although the AES decryption under its key fails to unpad.
C3_Witness ==
    /\ result.op = "EncryptionDat::new"
    /\ origin = [kind |-> "dat", variant |-> "good"]
    /\ result.arg \in WrongPasswords
    /\ result.ret = Err("WrongPassword")
    /\ aes256_cbc_decrypt(
           SubSeq(derive_encryption_key(result.arg, Salt), 1, 32),
           SubSeq(input, 53, 68), SubSeq(input, 69, 180)) = Err("CipherError")

\* C4: Pack::new and PackIndex::new return a value only if the last 20 bytes
\* of the input are the SHA-1 of the bytes before them, and return none for
\* a stream whose content was changed under an unchanged trailer.
C4_ValueOnlyUnderMatchingTrailer ==
    /\ (result.op \in {"Pack::new", "PackIndex::new"} /\ IsOk(result.ret)) =>
          /\ Len(input) >= Sha1Len
          /\ SubSeq(input, Len(input) - Sha1Len + 1, Len(input))
               = calculate_sha1sum(SubSeq(input, 1, Len(input) - Sha1Len))
    /\ (/\ result.op \in {"Pack::new", "PackIndex::new"}
        /\ origin.kind \in {"pack", "index"}
        /\ origin.variant = "flip_content")
          => ~IsOk(result.ret)

\* C4 happens: Pack::new returned a Pack that holds an object.
C4_Witness ==
    /\ result.op = "Pack::new"
    /\ IsOk(result.ret)
    /\ Len(result.ret.val.objects) >= 1

\* C5: decoding a compression tag maps 0 to None, 1 to Gzip, 2 to LZ4, and
\* every other i32 to the error value ParseError.
C5_UnknownTagIsParseError ==
    (/\ result.op \in {"CompressionType::new", "ArqCompressionType::new"}
     /\ Len(input) >= 4)
      => result.ret =
            CASE be_i32(SubSeq(input, 1, 4)) = 0 -> Ok("None", 4)
              [] be_i32(SubSeq(input, 1, 4)) = 1 -> Ok("Gzip", 4)
              [] be_i32(SubSeq(input, 1, 4)) = 2 -> Ok("LZ4", 4)
              [] OTHER -> Err("ParseError")

\* C6: for a commit stream that is well-formed but for its parent count,
\* Commit::new succeeds if and only if the count is 0 or 1, a decoded Commit
\* has at most one parent, and a count of 2 or more gives an error result.
C6_ParentCountAboveOneIsError ==
    (/\ result.op = "Commit::new"
     /\ origin.kind = "commit"
     /\ origin.variant = "good"
     /\ origin.parents = origin.declared)
      => /\ IsOk(result.ret) <=> origin.declared \in {0, 1}
         /\ IsOk(result.ret) =>
                Cardinality(DOMAIN result.ret.val.parent_commits) <= 1
         /\ origin.declared >= 2 => result.ret.tag = "Err"

\* C7: Tree::new answers a tree whose node list holds the same name twice
\* with an error, and a decoded Tree has as many entries in its map as the
\* stream has nodes.
C7_DuplicateNamesRejected ==
    (/\ result.op = "Tree::new"
     /\ result.arg = "None"
     /\ origin.kind = "tree"
     /\ origin.variant = "good"
     /\ \A i \in DOMAIN origin.names : origin.names[i] \in {<<97>>, <<98>>})
      => /\ (\E i, j \in DOMAIN origin.names :
                i # j /\ origin.names[i] = origin.names[j])
              => result.ret.tag = "Err"
         /\ IsOk(result.ret) =>
                Cardinality(DOMAIN result.ret.val.nodes) = Len(origin.names)

\* C8: a PackIndex that PackIndex::new returns holds as many object records
\* as its last fan-out entry says, read as a big-endian u32, and the 256
\* fan-out entries of 4 bytes each that the stream carries.
C8_ObjectCountIsLastFanout ==
    (result.op = "PackIndex::new" /\ IsOk(result.ret)) =>
        /\ Len(result.ret.val.objects)
             = be_unsigned(SubSeq(input, 8 + 4 * 255 + 1, 8 + 4 * 256))
        /\ Len(result.ret.val.fanout) = 256
        /\ \A i \in 1..256 :
              result.ret.val.fanout[i]
                = SubSeq(input, 8 + 4 * (i - 1) + 1, 8 + 4 * i)

\* C8 happens: PackIndex::new returned an index that holds object records
\* and whose first fan-out entry differs from its last.
C8_Witness ==
    /\ result.op = "PackIndex::new"
    /\ IsOk(result.ret)
    /\ Len(result.ret.val.objects) >= 1
    /\ result.ret.val.fanout[1] # result.ret.val.fanout[256]

\* C9: the fan-out table of a PackIndex that PackIndex::new returns is
\* non-decreasing, its entries read as big-endian u32 counts.
C9_FanoutNonDecreasing ==
    (result.op = "PackIndex::new" /\ IsOk(result.ret)) =>
        \A i \in 2..256 :
            be_unsigned(result.ret.val.fanout[i])
              >= be_unsigned(result.ret.val.fanout[i - 1])

\* C10: PackIndex::new, given a well-formed index, reports the Glacier tail
\* the stream carries (present, with its archive id and pack size), and
\* reports none (absent, empty id, size 0) when the object records are
\* followed by the trailer.
C10_GlacierTailDetected ==
    (/\ result.op = "PackIndex::new"
     /\ origin.kind = "index"
     /\ origin.variant = "good"
     /\ origin.shape = "counted")
      => /\ IsOk(result.ret)
         /\ result.ret.val.glacier_archive_id_present = (origin.tail # "none")
         /\ result.ret.val.glacier_archive_id
              = (IF origin.tail = "none" THEN <<>>
                 ELSE glacier_archive_id(origin.tail))
         /\ result.ret.val.glacier_pack_size
              = (IF origin.tail = "none" THEN 0
                 ELSE glacier_pack_size(origin.tail))

\* C14: a container whose magic or header is wrong (ENCRYPTIONV2, ARQO, PACK,
\* ff 74 4f 63, "encrypted", TreeV, CommitV) is answered by its decoder with
\* the error value ParseError.
C14_BadMagicIsParseError ==
    (\/ /\ result.op = "EncryptionDat::new"
        /\ origin.kind = "dat" /\ origin.variant = "bad_header"
     \/ /\ result.op = "EncryptedObject::new"
        /\ origin.kind = "object" /\ origin.variant = "bad_header"
     \/ /\ result.op = "Pack::new"
        /\ origin.kind = "pack" /\ origin.variant = "bad_magic"
     \/ /\ result.op = "PackIndex::new"
        /\ origin.kind = "index" /\ origin.variant = "bad_magic"
     \/ /\ result.op = "Folder::new"
        /\ origin.kind = "folder" /\ origin.header = "bad"
     \/ /\ result.op = "Tree::new" /\ result.arg = "None"
        /\ origin.kind = "tree" /\ origin.variant = "bad_header"
     \/ /\ result.op = "Commit::new"
        /\ origin.kind = "commit" /\ origin.variant = "bad_header")
      => result.ret = Err("ParseError")

\* C20: every key of the map of a Tree that Tree::new returns is a non-empty
\* string, and Tree::new returns no Tree for a stream one of whose node
\* entries has an empty name (presence flag absent, or length zero).
C20_NodeNamesNonEmpty ==
    /\ (result.op = "Tree::new" /\ IsOk(result.ret)) =>
          \A name \in DOMAIN result.ret.val.nodes : name # <<>>
    /\ (/\ result.op = "Tree::new"
        /\ result.arg = "None"
        /\ origin.kind = "tree"
        /\ origin.variant = "good"
        /\ \E i \in DOMAIN origin.names : origin.names[i] \in {<<>>, <<0>>})
          => ~IsOk(result.ret)

\* C20 happens: a tree whose first node is named and whose second node has
\* no name was given to Tree::new, which panicked on the assertion.
C20_Witness ==
    /\ result.op = "Tree::new"
    /\ result.arg = "None"
    /\ origin.kind = "tree"
    /\ origin.variant = "good"
    /\ origin.names = <<<<97>>, <<0>>>>
    /\ result.ret = Panic("assertion failed: !node_name.is_empty()")


\* C11: BlobKey::new consumes the six fields of the record whatever the sha1
\* is: the reader ends behind the record, the result is None exactly when
\* the sha1 read is the empty string, and Some of the six values otherwise;
\* a record cut short is no BlobKey and no None.
C11_BlobKeyConsumesSixFields ==
    (/\ result.op = "BlobKey::new"
     /\ origin.kind = "blob"
     /\ result.arg.pos = 0
     /\ origin.cut => origin.extra = <<>>)
      => IF origin.cut THEN ~IsOk(result.ret)
         ELSE /\ IsOk(result.ret)
              /\ result.ret.pos = Len(blob_record(origin))
              /\ objs[1].pos = Len(blob_record(origin))
              /\ result.ret.val.some = (optional_string_value(origin.sha1) # <<>>)
              /\ result.ret.val.some =>
                    result.ret.val =
                        [some |-> TRUE,
                         sha1 |-> origin.sha1,
                         is_encryption_key_stretched |-> origin.stretched,
                         storage_type |->
                             u32_from_be_bytes(be_bytes(origin.storage_type, 4)),
                         archive_id |-> optional_string_value(origin.archive_id),
                         archive_size |->
                             u64_from_be_bytes(be_bytes(origin.archive_size, 8)),
                         archive_upload_date |-> date_value(origin.date)]

\* C11 happens: a record whose sha1 is absent and whose other fields are all
\* present was read as None, the reader behind its last field and before
\* the byte that follows the record.
C11_Witness ==
    /\ result.op = "BlobKey::new"
    /\ origin.kind = "blob"
    /\ origin.sha1 = <<0>> /\ origin.archive_id = <<120>> /\ origin.date = 5
    /\ ~origin.cut /\ origin.extra = <<1>>
    /\ result.arg.pos = 0
    /\ result.ret = Ok([some |-> FALSE], 33)
    /\ objs[1].pos = Len(input) - 1


\* C12: Commit::is_commit returns true if and only if the buffer begins with
\* the ten bytes "CommitV012", and returns false for a buffer shorter than
\* ten bytes.
C12_IsCommitIffPrefix ==
    result.op = "Commit::is_commit" =>
        result.ret = Ok(/\ Len(input) >= Len(CommitHeader)
                        /\ SubSeq(input, 1, Len(CommitHeader)) = CommitHeader, 0)


\* C13: FolderData::new, given an identifier longer than 40 bytes, returns a
\* FolderData only if the identifier ends in 'Y' and the bytes before the
\* 'Y' are the new_head_sha1 it decoded; given an identifier of 40 bytes or
\* fewer it compares nothing and returns the record it decoded.
C13_HeadIdentifierConsistent ==
    result.op = "FolderData::new" =>
        /\ (Len(result.arg.arg) > 40 /\ IsOk(result.ret)) =>
              /\ result.arg.arg[Len(result.arg.arg)] = 89
              /\ SubSeq(result.arg.arg, 1, Len(result.arg.arg) - 1)
                   = result.ret.val.new_head_sha1
        /\ (/\ Len(result.arg.arg) <= 40
            /\ origin.kind = "folderdata"
            /\ origin.plist)
              => result.ret = Ok([new_head_sha1 |-> origin.sha1], 0)

\* C13 happens: a head record was returned for the identifier that is its
\* new head's SHA-1 followed by 'Y'.
C13_Witness ==
    /\ result.op = "FolderData::new"
    /\ origin = [kind |-> "folderdata", plist |-> TRUE, sha1 |-> hex_sha1(1)]
    /\ result.arg.arg = hex_sha1(1) \o <<89>>
    /\ result.ret = Ok([new_head_sha1 |-> hex_sha1(1)], 0)


\* C15: decompressing what lz4_compress made of a byte sequence succeeds and
\* returns that sequence: the same bytes, of the same length.
C15_Lz4RoundTrip ==
    result.op = "lz4_decompress(lz4_compress)" => result.ret = Ok(input, 0)


\* C16: read_arq_string reads one presence byte.  A byte other than 0x01
\* gives the empty string and the reader stays behind that byte.  The byte
\* 0x01 is followed by a big-endian u64 n and by n bytes: where the stream
\* holds them and they are UTF-8, the result is those n bytes and the reader
\* stands right behind them.
C16_StringPresenceFlag ==
    LET p == result.arg.pos
        n == u64_from_be_bytes(SubSeq(input, p + 2, p + 9)).mag[4]
        small == \A i \in (p + 2)..(p + 7) : input[i] = 0
        bytes == SubSeq(input, p + 10, p + 9 + n)
    IN  (result.op = "read_arq_string" /\ p < Len(input)) =>
            IF input[p + 1] # 1
            THEN /\ result.ret = Ok(<<>>, p + 1)
                 /\ objs[1].pos = p + 1
            ELSE (/\ p + 9 <= Len(input)
                  /\ small
                  /\ p + 9 + n <= Len(input)
                  /\ utf8_valid(bytes))
                    => /\ result.ret = Ok(bytes, p + 9 + n)
                       /\ objs[1].pos = p + 9 + n

\* C16 happens: the string AHBH was read from a stream that goes on behind
\* it.
C16_Witness ==
    /\ result.op = "read_arq_string"
    /\ result.arg.pos = 0
    /\ input = <<1, 0, 0, 0, 0, 0, 0, 0, 4, 65, 72, 66, 72, 1>>
    /\ result.ret = Ok(<<65, 72, 66, 72>>, 13)
    /\ objs[1].pos = Len(input) - 1


\* C17: read_bytes(n) returns the next n bytes of the stream and moves the
\* reader forward by n, or fails with IoError when fewer than n bytes are
\* left; so calls that succeed one after another return segments of the
\* input that follow each other, and read_bytes(0) returns the empty
\* sequence and leaves the reader where it was.
C17_ReadBytesExactOrIoError ==
    LET p == result.arg.pos
        n == result.arg.arg
    IN  result.op = "read_bytes" =>
            IF p + n <= Len(input)
            THEN /\ result.ret = Ok(SubSeq(input, p + 1, p + n), p + n)
                 /\ objs[1].pos = p + n
            ELSE result.ret = Err("IoError")


\* C19: read_arq_u32 and read_arq_i32 consume four bytes, read_arq_u64 and
\* read_arq_i64 eight, and the value read has these bytes, most significant
\* first, as its digits to the base 256: the digits of the value itself for
\* the unsigned reads, of the value modulo 2^32 or 2^64 for the signed ones,
\* which are negative exactly when the first byte is 128 or more.  So
\* fe ff ff ff is -16777217 as an i32, ff ff ff ff is the greatest u32, and
\* 7f ff ff ff ff ff ff ff the greatest i64.
C19_BigEndianIntegers ==
    LET p == result.arg.pos
        v == result.ret.val
        width == IF result.op \in {"read_arq_u32", "read_arq_i32"} THEN 4 ELSE 8
        bytes == SubSeq(input, p + 1, p + width)
        digits(m) == <<m[1] \div 256, m[1] % 256, m[2] \div 256, m[2] % 256,
                       m[3] \div 256, m[3] % 256, m[4] \div 256, m[4] % 256>>
        residue(w) == IF w.neg THEN wide_complement(w.mag) ELSE w.mag
        high == (v \div Limb + Limb) % Limb
        low == v % Limb
    IN  (/\ result.op \in {"read_arq_u32", "read_arq_i32", "read_arq_u64",
                           "read_arq_i64"}
         /\ p + width <= Len(input))
          => /\ IsOk(result.ret)
             /\ result.ret.pos = p + width
             /\ objs[1].pos = p + width
             /\ result.op = "read_arq_u32" =>
                   /\ ~v.neg
                   /\ digits(v.mag) = <<0, 0, 0, 0>> \o bytes
                   /\ bytes = <<255, 255, 255, 255>> =>
                         wide_to_string(v) = <<52, 50, 57, 52, 57, 54, 55, 50, 57, 53>>
             /\ result.op = "read_arq_i32" =>
                   /\ v \div Limb \in (0 - 32768)..32767
                   /\ v < 0 <=> bytes[1] >= 128
                   /\ <<high \div 256, high % 256, low \div 256, low % 256>> = bytes
                   /\ bytes = <<254, 255, 255, 255>> => v = 0 - 16777217
             /\ result.op = "read_arq_u64" =>
                   /\ ~v.neg
                   /\ digits(v.mag) = bytes
                   /\ bytes = <<0, 0, 0, 0, 254, 255, 255, 255>> =>
                         wide_to_string(v) = <<52, 50, 55, 56, 49, 57, 48, 48, 55, 57>>
             /\ result.op = "read_arq_i64" =>
                   /\ v.neg <=> bytes[1] >= 128
                   /\ digits(residue(v)) = bytes
                   /\ bytes = <<127, 255, 255, 255, 255, 255, 255, 255>> =>
                         wide_to_string(v) =
                             <<57, 50, 50, 51, 51, 55, 50, 48, 51, 54, 56, 53, 52,
                               55, 55, 53, 56, 48, 55>>
                   /\ bytes = <<254, 255, 255, 255, 255, 255, 255, 255>> =>
                         wide_to_string(v) =
                             <<45, 55, 50, 48, 53, 55, 53, 57, 52, 48, 51, 55, 57,
                               50, 55, 57, 51, 55>>

\* C19 happens: the second i64 of the stream of test_read_arq_i64 was read
\* after the first, as -72057594037927937.
C19_Witness ==
    /\ result.op = "read_arq_i64"
    /\ Len(input) = 24
    /\ result.arg.pos = 8
    /\ IsOk(result.ret)
    /\ result.ret.val.neg
    /\ objs[1].pos = 16


\* C18: decoding a date reads one presence byte; after 0x01 the next eight
\* bytes, big-endian, are milliseconds_since_epoch, and after any other byte
\* milliseconds_since_epoch is 0 and nothing more is read.  Formatting the
\* date gives the text of a UTC date and time of day, and that text names
\* the second floor(milliseconds_since_epoch / 1000) after the epoch: its
\* calendar day is that many whole days after 1970-01-01 and its time of day
\* is the rest.
C18_DateDecodeAndDisplay ==
    LET p == result.arg.pos
        ms == result.ret.val.milliseconds_since_epoch
        digits(m) == <<m[1] \div 256, m[1] % 256, m[2] \div 256, m[2] % 256,
                       m[3] \div 256, m[3] % 256, m[4] \div 256, m[4] % 256>>
        text == result.ret.val
        n == Len(text)
        two(i) == (text[i] - 48) * 10 + (text[i + 1] - 48)
        year_from == IF text[1] = 43 THEN 2 ELSE 1
        number[i \in 0..n] ==
            IF i < year_from THEN 0 ELSE number[i - 1] * 10 + (text[i] - 48)
        year == number[n - 19]
        month == two(n - 17)
        day == two(n - 14)
        y == IF month <= 2 THEN year - 1 ELSE year
        era == y \div 400
        yoe == y - era * 400
        doy == (153 * (IF month > 2 THEN month - 3 ELSE month + 9) + 2) \div 5
                 + day - 1
        doe == yoe * 365 + yoe \div 4 - yoe \div 100 + doy
        days_from_civil == era * 146097 + doe - 719468
        secs == wide_divmod(result.arg.arg.milliseconds_since_epoch.mag, 1000)
        minutes == wide_divmod(secs.quot, 60)
        hours == wide_divmod(minutes.quot, 60)
        days == wide_divmod(hours.quot, 24)
    IN  /\ (result.op \in {"Date::new", "read_arq_date"} /\ p < Len(input)) =>
              IF input[p + 1] # 1
              THEN /\ result.ret = Ok([milliseconds_since_epoch |-> wide_zero], p + 1)
                   /\ objs[1].pos = p + 1
              ELSE p + 9 <= Len(input) =>
                      /\ IsOk(result.ret)
                      /\ ~ms.neg
                      /\ digits(ms.mag) = SubSeq(input, p + 2, p + 9)
                      /\ result.ret.pos = p + 9
                      /\ objs[1].pos = p + 9
        /\ result.op \in {"Date::fmt", "ArqDate::fmt"} =>
              /\ IsOk(result.ret)
              /\ n >= 23
              /\ SubSeq(text, n - 3, n) = <<32, 85, 84, 67>>
              /\ <<text[n - 18], text[n - 15], text[n - 12], text[n - 9],
                   text[n - 6]>> = <<45, 45, 32, 58, 58>>
              /\ days.quot = <<0, 0, days_from_civil \div Limb,
                               days_from_civil % Limb>>
              /\ <<two(n - 11), two(n - 8), two(n - 5)>>
                    = <<days.rem, hours.rem, minutes.rem>>


\* C21: Tree::new accepts a body only when its first eight bytes are "TreeV0"
\* and two decimal digits, and the version of the Tree it returns is the
\* number these two digits denote; it returns no Tree for a body whose first
\* eight bytes are of another form.
C21_TreeHeaderForm ==
    LET header == SubSeq(input, 1, 8)
        digit(b) == b >= 48 /\ b <= 57
        well_formed ==
            /\ SubSeq(header, 1, 6) = <<84, 114, 101, 101, 86, 48>>
            /\ digit(header[7])
            /\ digit(header[8])
    IN  (result.op = "Tree::new" /\ result.arg = "None" /\ Len(input) >= 8) =>
            IF well_formed
            THEN IsOk(result.ret) =>
                    result.ret.val.version = (header[7] - 48) * 10 + (header[8] - 48)
            ELSE ~IsOk(result.ret)


C23_FolderStepsInOrder ==
    LET master_keys == result.arg
        order == <<"hmac", "aes", "plist">>
        header_ok == Len(input) >= 9 /\ SubSeq(input, 1, 9) = FolderHeader
        obj == EncryptedObject_new(input, 9)
    IN  result.op = "Folder::new" =>
            /\ Len(log) <= 3
            /\ \A i \in DOMAIN log :
                  /\ log[i].step = order[i]
                  /\ i < Len(log) => log[i].ok
                  /\ log[i].step = "hmac" => log[i].key = master_keys[2]
                  /\ log[i].step = "aes" => log[i].key = master_keys[1]
            /\ (log # <<>> /\ ~log[Len(log)].ok) => ~IsOk(result.ret)
            /\ IsOk(result.ret) => Len(log) = 3
            /\ ~header_ok => (log = <<>> /\ ~IsOk(result.ret))
            /\ (header_ok /\ ~IsOk(obj)) => (log = <<>> /\ result.ret = obj)

\* C23 happens: a folder file sealed with the keys of the ring was read, all
\* three steps ran and succeeded, and a Folder was returned.
C23_Witness ==
    /\ result.op = "Folder::new"
    /\ result.arg = MasterKeys
    /\ IsOk(result.ret)
    /\ Len(log) = 3
    /\ \A i \in DOMAIN log : log[i].ok
    /\ log[1].key = MasterKeys[2]
    /\ log[2].key = MasterKeys[1]


\* C24: a pack object is a mimetype flag, followed directly by an 8-byte
\* length and the mimetype only when the flag is 1, the same for the name,
\* then an 8-byte length and the data.  PackObject::new consumes these bytes
\* and no others: Pack::new reads every object of a pack laid out this way
\* from where the one before it ended, with its mimetype, its name and, as
\* its EncryptedObject, its own data and nothing of a later object.
C24_PackObjectLayout ==
    LET expected(i) ==
            [mimetype |-> IF origin.layout = "none" THEN <<>> ELSE <<116, 120, 116>>,
             name |-> IF origin.layout = "none" THEN <<>> ELSE <<110, 48 + i>>,
             data |-> EncryptedObject_new(
                          object_stream([kind |-> "object",
                                         plaintext |-> pack_plaintext(i),
                                         variant |-> "good"]), 0).val]
    IN  (/\ result.op = "Pack::new"
         /\ origin.kind = "pack"
         /\ origin.variant = "good"
         /\ origin.payload = "good"
         /\ origin.layout \in {"none", "doc"})
          => /\ IsOk(result.ret)
             /\ result.ret.val.objects = [i \in 1..origin.count |-> expected(i)]


\* C25: lz4_decompress reports failure as an error value.  When the block
\* decoder fails on the compressed bytes the result is DecompressionError,
\* and when the declared length is negative the result is
\* DecompressionDataLengthOutOfBounds; in neither case does the call return
\* a buffer as the decompressed data.
C25_Lz4FailureIsError ==
    LET original_len == read_arq_i32(input, 0)
        decoded == lz4_block(SubSeq(input, 5, Len(input)), 1, <<>>,
                             original_len.val)
    IN  (result.op = "lz4_decompress" /\ IsOk(original_len))
          => /\ original_len.val < 0
                  => result.ret = Err("DecompressionDataLengthOutOfBounds")
             /\ (original_len.val >= 0 /\ ~decoded.ok)
                  => result.ret = Err("DecompressionError")


\* C26: CompressionType::decompress dispatches on the tag.  Tree::new parses
\* the input bytes themselves with None and the LZ4-decompressed body with
\* LZ4; PackObject::original returns the decrypted bytes themselves with
\* None and their LZ4-decompressed body with LZ4; with Gzip neither returns:
\* the call is fatal once it asks for the content.  Decoding the tag 1 from
\* a record gives Gzip.
C26_DecompressDispatch ==
    LET parsed(content) == Tree_of(read_fields(content, 0, TreeFields))
        body(compressed) == lz4_decompress(compressed)
        decrypted == EncryptedObject_decrypt(objs[result.arg.obj].data,
                                             result.arg.key)
    IN  /\ result.op = "Tree::new" =>
              CASE result.arg = "None" -> result.ret = parsed(input)
                [] result.arg = "LZ4" ->
                      result.ret = IF IsOk(body(input))
                                   THEN parsed(body(input).val)
                                   ELSE body(input)
                [] result.arg = "Gzip" -> result.ret.tag = "Panic"
        /\ (result.op = "PackObject::original" /\ IsOk(decrypted)) =>
              CASE result.arg.ct = "None" -> result.ret = Ok(decrypted.val, 0)
                [] result.arg.ct = "LZ4" -> result.ret = body(decrypted.val)
                [] result.arg.ct = "Gzip" -> result.ret.tag = "Panic"
        /\ (result.op = "CompressionType::new"
              /\ input = <<0, 0, 0, 1>>) => result.ret = Ok("Gzip", 4)

C26_Witness ==
    /\ result.op = "PackObject::original"
    /\ result.arg.ct = "LZ4"
    /\ IsOk(result.ret)
    /\ result.ret.val = NotPlist


\* C27: in every Commit that Commit::new returns, tree_sha1 is a non-empty
\* string and so is every parent commit sha1 recorded in parent_commits: a
\* commit whose tree_sha1 or parent sha1 is absent or of length zero is not
\* accepted.
C27_CommitSha1sNotNull ==
    (result.op = "Commit::new" /\ IsOk(result.ret))
      => /\ result.ret.val.tree_sha1 # <<>>
         /\ \A sha1 \in DOMAIN result.ret.val.parent_commits : sha1 # <<>>


\* C28: Pack::new on an input shorter than 20 bytes returns an error value:
\* the offset of the trailer, the length less 20, is not computed below
\* zero or wrapped around, and no Pack is returned.
C28_ShortPackIsError ==
    (result.op = "Pack::new" /\ Len(input) < Sha1Len)
      => result.ret.tag = "Err"


\* C29: when Pack::new or PackIndex::new succeeds, what it parsed accounts
\* for the whole file: the position the reader reached after the header,
\* the declared number of objects and, in an index, the Glacier tail is the
\* length of the file less 20.  A file with unparsed bytes before the
\* trailing SHA-1 is not accepted, even when the SHA-1 covers those bytes.
C29_RecordsFillTheFile ==
    LET object_count == as_usize(read_arq_u64(input, 8))
        pack_objects == read_pack_objects(input, 16, object_count.val, <<>>)
        fanout == read_fanout(input, 8)
        index_objects == read_index_objects(input, fanout.pos,
                                            index_object_count(fanout.val), <<>>)
        glacier == read_glacier_tail(input, index_objects.pos)
    IN  /\ (result.op = "Pack::new" /\ IsOk(result.ret))
              => pack_objects.pos = Len(input) - Sha1Len
        /\ (result.op = "PackIndex::new" /\ IsOk(result.ret))
              => glacier.pos = Len(input) - Sha1Len

---------------------------------------------------------------------------
(* Node::new, statement by statement: the fields before the blob-key       *)
(* loop, one action per iteration of the loop, and the fields after it.    *)
(* The call runs in the caller's thread and every statement that can run   *)
(* does run, hence the weak fairness of its steps.                         *)

\* The streams Node::new is stepped through, and what its reads give on
\* them, tabulated by stream and position: the fields before the count with
\* the count, BlobKey::new, and the fields after the loop.
NodeStreams == {node_record(o) : o \in NodeOrigins}

Node_counted(head, data_blob_keys_count) ==
    IF ~IsOk(data_blob_keys_count) THEN data_blob_keys_count
    ELSE Ok([head |-> head.val,
             data_blob_keys_count |-> data_blob_keys_count.val],
            data_blob_keys_count.pos)

Node_head(buf, head) ==
    IF ~IsOk(head) THEN head
    ELSE Node_counted(head, read_arq_i32(buf, head.pos))

NodeHeadOf ==
    [buf \in NodeStreams |->
        Node_head(buf, read_field_range(buf, 0, NodeFields, 1, 5))]

BlobKeyAt ==
    [buf \in NodeStreams |-> [pos \in 0..Len(buf) |-> BlobKey_new(buf, pos)]]

NodeTailAt ==
    [buf \in NodeStreams |->
        [pos \in 0..Len(buf) |->
            read_field_range(buf, pos, NodeFields, 7, Len(NodeFields))]]

\* The outcome of a call that has not returned yet.
Running == [tag |-> "Running", err |-> "", val |-> NoVal, pos |-> 0]

\* tree.rs:140-147: the five fields before the count, the count, and the
\* empty vector; a failed read returns at once.
Node_enter ==
    /\ pc = "ready"
    /\ \E read \in {NodeHeadOf[input]} :
           IF ~IsOk(read)
           THEN /\ pc' = "returned"
                /\ result' = called("Node::new", <<>>, read)
                /\ objs' = objs
           ELSE /\ pc' = "blob_keys"
                /\ result' = called("Node::new",
                        [head |-> read.val.head,
                         data_blob_keys_count |-> read.val.data_blob_keys_count,
                         data_blob_keys |-> <<>>],
                        Running)
                /\ objs' = <<[pos |-> read.pos]>>
    /\ UNCHANGED <<input, origin, held, log, validated_objs>>

\* tree.rs:148-153: one iteration of `while data_blob_keys_count > 0`.  A
\* present key is pushed and counted, an absent one is neither, and a failed
\* BlobKey::new returns its error.
Node_read_blob_key ==
    /\ pc = "blob_keys"
    /\ result.arg.data_blob_keys_count > 0
    /\ \E k \in {BlobKeyAt[input][objs[1].pos]} :
           IF ~IsOk(k)
           THEN /\ pc' = "returned"
                /\ result' = [result EXCEPT !.ret = k]
                /\ objs' = objs
           ELSE /\ pc' = pc
                /\ objs' = <<[pos |-> k.pos]>>
                /\ result' =
                     IF k.val.some
                     THEN [result EXCEPT
                             !.arg.data_blob_keys = Append(@, k.val),
                             !.arg.data_blob_keys_count = @ - 1]
                     ELSE result
    /\ UNCHANGED <<input, origin, held, log, validated_objs>>

\* tree.rs:154-213: the loop is over; the remaining fields and the Node.
Node_leave ==
    /\ pc = "blob_keys"
    /\ ~(result.arg.data_blob_keys_count > 0)
    /\ \E tail \in {NodeTailAt[input][objs[1].pos]} :
           /\ pc' = "returned"
           /\ result' = [result EXCEPT !.ret =
                 IF ~IsOk(tail) THEN tail
                 ELSE Node_of(Ok(result.arg.head
                                   \o <<result.arg.data_blob_keys>>
                                   \o tail.val, tail.pos))]
           /\ objs' = <<[pos |-> tail.pos]>>
    /\ UNCHANGED <<input, origin, held, log, validated_objs>>

NodeNext == Node_enter \/ Node_read_blob_key \/ Node_leave

NodeInit ==
    /\ origin \in NodeOrigins
    /\ input = stream_of(origin)
    /\ pc = "ready"
    /\ result = called("none", <<>>, NoVal)
    /\ objs = <<>>
    /\ held = "none"
    /\ log = <<>>
    /\ validated_objs = {}

NodeSpec == NodeInit /\ [][NodeNext]_vars /\ WF_vars(NodeNext)

\* C30: Node::new terminates on every finite input for every value of
\* data_blob_keys_count: the blob-key loop, which does not count an absent
\* BlobKey, ends by collecting the declared number of present keys or by a
\* failed read at the end of the input, and the call returns.
C30_NodeNewTerminates == <>(pc = "returned")

C30_Witness ==
    /\ pc = "returned"
    /\ origin.kind = "node"
    /\ origin.count = MaxI32
    /\ result.arg.data_blob_keys_count = MaxI32
    /\ result.ret.tag = "Err"
    /\ result.ret.err = "IoError"

=============================================================================
